---------------------------- MODULE Spec2Model ----------------------------
(***************************************************************************)
(* A model of the behavioural-analysis core of interview-api:              *)
(*   core/config.py           CheatingDetectionConfig (class attributes)   *)
(*   core/detect.py           CheatingDetector                             *)
(*   core/gaze_calibrator.py  GazeCalibrator                               *)
(*   app/detection.py         VideoProcessor                               *)
(*   app/tasks.py             process_video and the module-level processor *)
(*                                                                         *)
(* Units.  Python floats are modelled by exact numbers:                    *)
(*   - times are whole seconds of the wall clock (time.time());            *)
(*   - suspicion scores and penalties are in tenths of a point             *)
(*     (0.5 -> 5, 100 -> 1000);                                            *)
(*   - angles are in hundredths of a radian (0.3 -> 30); the angles the    *)
(*     calibrator computes are exact rationals [num, den];                 *)
(*   - face sizes and eye distances are in pixels.                         *)
(* None is the empty tuple <<>>, a present value x is <<x>>.               *)
(***************************************************************************)
EXTENDS Integers, Sequences, FiniteSets, Bags, TLC

(***************************** bounds of the model *************************)
\* valid analyze calls explored per detector under Spec
MaxCalls == 3
\* seconds the wall clock may advance under Spec
MaxTime == 16
\* valid analyze calls explored under SpecStress
MaxStressCalls == 11
\* samples offered to the calibrator under SpecCal
MaxFrames == 32
\* videos handled by one worker under SpecWorker
MaxVideos == 2
\* frames per video under SpecWorker
MaxVideoFrames == 32
\* valid analyze calls per detector under SpecSessions
MaxSessionCalls == 2
\* SpecScenario: frames, one second apart
MaxScenarioFrames == 10
\* SpecAttentive: seconds, a frame each
MaxAttentiveFrames == 16
\* SpecSummary: the number of frames analysed
MaxSummaryFrames == 11
\* SpecPrecedence: seconds of session, a frame every three seconds
MaxPrecedenceTime == 33
\* SpecPatterns: seconds of session, a frame every four seconds
MaxPatternsTime == 24
\* SpecHistory: the number of frames analysed
MaxHistoryFrames == 54
\* SpecRepetitive: seconds of session, a frame every five seconds
MaxRepetitiveTime == 100
\* SpecCounters: the number of valid analyze calls
MaxCounterCalls == 4
\* SpecTimestamps: seconds of session, a frame every four seconds
MaxTimestampsTime == 20
\* SpecElapsed: seconds of session and number of valid analyze calls
MaxElapsedTime == 8
MaxElapsedCalls == 4
\* SpecSkipped: seconds of session, a frame every two seconds
MaxSkippedTime == 12

(******************************* option values *****************************)
None == <<>>
Some(x) == <<x>>
Get(o) == o[1]
IsNone(o) == o = <<>>

(***************************** exact rationals *****************************)
Abs(n) == IF n < 0 THEN -n ELSE n

RECURSIVE GCD(_, _)
GCD(a, b) == IF b = 0 THEN a ELSE GCD(b, a % b)

\* the rational n/d (d # 0) in lowest terms with a positive denominator
Rat(n, d) ==
    LET g == GCD(Abs(n), Abs(d))
        s == IF d < 0 THEN -1 ELSE 1
    IN  [num |-> (s * n) \div g, den |-> (s * d) \div g]

R(n) == [num |-> n, den |-> 1]
RAdd(a, b) == Rat(a.num * b.den + b.num * a.den, a.den * b.den)
RSub(a, b) == Rat(a.num * b.den - b.num * a.den, a.den * b.den)
RMul(a, b) == Rat(a.num * b.num, a.den * b.den)
RDiv(a, b) == Rat(a.num * b.den, a.den * b.num)
RLt(a, b) == a.num * b.den < b.num * a.den
RGt(a, b) == RLt(b, a)
RLe(a, b) == ~RLt(b, a)
RAbs(a) == [num |-> Abs(a.num), den |-> a.den]
RMin(a, b) == IF RLt(b, a) THEN b ELSE a
RMax(a, b) == IF RLt(a, b) THEN b ELSE a

Min(a, b) == IF b < a THEN b ELSE a
Max(a, b) == IF a < b THEN b ELSE a

(********************** core/config.py: class attributes *******************)
\* seconds
ALERT_COOLDOWN == 10
\* hundredths of a radian
DOWNWARD_GAZE_ANGLE == 30
SIDE_GAZE_ANGLE == 50
HEAD_MOVEMENT_THRESHOLD == 40
MAX_HEAD_TURNS == 15
\* tenths of a point
MAX_SUSPICION_SCORE == 1000
LOOKING_AWAY_PENALTY == 5
DOWNWARD_LOOK_PENALTY == 10
SIDE_LOOK_PENALTY == 15
HEAD_MOVEMENT_PENALTY == 20
DURATION_MULTIPLIER == 2
RECOVERY_RATE == -2

\* the attributes the mode switches rewrite, as set by each classmethod
StrictAttrs ==
    [SUSPICIOUS_GAZE_THRESHOLD |-> 2, CHEATING_GAZE_THRESHOLD |-> 3,
     MAX_DOWNWARD_LOOKS |-> 5, MAX_SIDE_LOOKS |-> 4,
     HIGH_SUSPICION_THRESHOLD |-> 500]

ModerateAttrs ==
    [SUSPICIOUS_GAZE_THRESHOLD |-> 3, CHEATING_GAZE_THRESHOLD |-> 5,
     MAX_DOWNWARD_LOOKS |-> 10, MAX_SIDE_LOOKS |-> 8,
     HIGH_SUSPICION_THRESHOLD |-> 700]

LenientAttrs ==
    [SUSPICIOUS_GAZE_THRESHOLD |-> 5, CHEATING_GAZE_THRESHOLD |-> 8,
     MAX_DOWNWARD_LOOKS |-> 15, MAX_SIDE_LOOKS |-> 12,
     HIGH_SUSPICION_THRESHOLD |-> 800]

\* the values of the class body: those set_moderate_mode writes again
ClassAttrs ==
    [SUSPICIOUS_GAZE_THRESHOLD |-> 3, CHEATING_GAZE_THRESHOLD |-> 5,
     MAX_DOWNWARD_LOOKS |-> 10, MAX_SIDE_LOOKS |-> 8,
     HIGH_SUSPICION_THRESHOLD |-> 700]

(******************************** the state ********************************)
VARIABLES
    now,         \* the wall clock, read by time.time()
    config,      \* the mutable class attributes of CheatingDetectionConfig
    detector,    \* detector[d]: the fields of CheatingDetector instance d
    calibrator,  \* the fields of the GazeCalibrator
    worker,      \* the Celery worker around the module-level processor
    ret          \* the last call: its name, receiver, arguments and result

vars == <<now, config, detector, calibrator, worker, ret>>

Detectors == {1, 2}

\* time.time() counts seconds since 1970: every reading is more than
\* ALERT_COOLDOWN above the initial last_alert_time of 0
ClockStart == ALERT_COOLDOWN + 1


(********************* core/detect.py: CheatingDetector ********************)
\* CheatingDetector.__init__ at wall-clock time t
NewDetector(t) ==
    [looking_away_start |-> None,
     cheating_alerts |-> <<>>,
     last_alert_time |-> 0,
     head_movement_history |-> <<>>,
     alert_active |-> FALSE,
     total_looking_away_time |-> 0,
     session_start_time |-> t,
     repeated_patterns |-> [downward_looks |-> 0, side_looks |-> 0, head_turns |-> 0],
     suspicion_score |-> 0]

\* deque(maxlen=50)
HISTORY_MAXLEN == 50

\* self.config.X: the instance holds no attribute of its own, so the lookup
\* ends at the class attribute, whichever instance asks
ConfigOf(d) == config

\* ALERT_MESSAGES.get(reason, ...)['severity']
ALERT_MESSAGES(reason) ==
    IF reason \in {"PROLONGED_DISTRACTION", "HIGH_SUSPICION"}
    THEN [severity |-> "HIGH"] ELSE [severity |-> "MEDIUM"]

is_looking_away(yaw, pitch) ==
    IF RGt(pitch, R(DOWNWARD_GAZE_ANGLE)) THEN TRUE
    ELSE IF RGt(RAbs(yaw), R(SIDE_GAZE_ANGLE)) THEN TRUE
    ELSE FALSE

\* mutant: a history that evicts nothing
calculate_head_movement_unbounded(s, yaw, pitch) ==
    LET hist == Append(s.head_movement_history, <<yaw, pitch>>)
        prev == hist[Len(hist) - 1]
        dy == RSub(yaw, prev[1])
        dp == RSub(pitch, prev[2])
    IN  [state |-> [s EXCEPT !.head_movement_history = hist],
         velocity_sq |-> IF Len(hist) < 2 THEN R(0)
                         ELSE RAdd(RMul(dy, dy), RMul(dp, dp))]

\* the deque after the append, and the square of the velocity
\* (velocity = sqrt(velocity_sq); both are >= 0)
calculate_head_movement(s, yaw, pitch) ==
    LET appended == Append(s.head_movement_history, <<yaw, pitch>>)
        hist == IF Len(appended) > HISTORY_MAXLEN THEN Tail(appended) ELSE appended
        prev == hist[Len(hist) - 1]
        dy == RSub(yaw, prev[1])
        dp == RSub(pitch, prev[2])
    IN  [state |-> [s EXCEPT !.head_movement_history = hist],
         velocity_sq |-> IF Len(hist) < 2 THEN R(0)
                         ELSE RAdd(RMul(dy, dy), RMul(dp, dp))]

\* mutant: the three tests made an if / elif chain
update_pattern_detection_exclusive(s, yaw, pitch) ==
    LET p0 == s.repeated_patterns
    IN  [s EXCEPT !.repeated_patterns =
            IF RGt(pitch, R(DOWNWARD_GAZE_ANGLE))
            THEN [p0 EXCEPT !.downward_looks = @ + 1]
            ELSE IF RGt(RAbs(yaw), R(SIDE_GAZE_ANGLE))
            THEN [p0 EXCEPT !.side_looks = @ + 1]
            ELSE IF RGt(RAbs(yaw), R(HEAD_MOVEMENT_THRESHOLD))
            THEN [p0 EXCEPT !.head_turns = @ + 1]
            ELSE p0]

\* mutant: a head turn counted only above twice HEAD_MOVEMENT_THRESHOLD
update_pattern_detection_wide_turns(s, yaw, pitch) ==
    LET p0 == s.repeated_patterns
        p1 == IF RGt(pitch, R(DOWNWARD_GAZE_ANGLE))
              THEN [p0 EXCEPT !.downward_looks = @ + 1] ELSE p0
        p2 == IF RGt(RAbs(yaw), R(SIDE_GAZE_ANGLE))
              THEN [p1 EXCEPT !.side_looks = @ + 1] ELSE p1
        p3 == IF RGt(RAbs(yaw), R(2 * HEAD_MOVEMENT_THRESHOLD))
              THEN [p2 EXCEPT !.head_turns = @ + 1] ELSE p2
    IN  [s EXCEPT !.repeated_patterns = p3]

update_pattern_detection(s, yaw, pitch) ==
    LET p0 == s.repeated_patterns
        p1 == IF RGt(pitch, R(DOWNWARD_GAZE_ANGLE))
              THEN [p0 EXCEPT !.downward_looks = @ + 1] ELSE p0
        p2 == IF RGt(RAbs(yaw), R(SIDE_GAZE_ANGLE))
              THEN [p1 EXCEPT !.side_looks = @ + 1] ELSE p1
        p3 == IF RGt(RAbs(yaw), R(HEAD_MOVEMENT_THRESHOLD))
              THEN [p2 EXCEPT !.head_turns = @ + 1] ELSE p2
    IN  [s EXCEPT !.repeated_patterns = p3]

\* head_velocity > HEAD_MOVEMENT_THRESHOLD, on the squares
VelocityExceeds(velocity_sq, threshold) == RGt(velocity_sq, R(threshold * threshold))

\* mutant: the head-movement penalty added on top of the recovery rate
calculate_suspicion_increase_additive(cfg, away, duration, velocity_sq, yaw, pitch) ==
    LET moved == IF VelocityExceeds(velocity_sq, HEAD_MOVEMENT_THRESHOLD)
                 THEN HEAD_MOVEMENT_PENALTY ELSE 0
        i1 == IF away
              THEN LOOKING_AWAY_PENALTY
                   + (IF RGt(pitch, R(DOWNWARD_GAZE_ANGLE)) THEN DOWNWARD_LOOK_PENALTY ELSE 0)
                   + (IF RGt(RAbs(yaw), Rat(SIDE_GAZE_ANGLE * 15, 10)) THEN SIDE_LOOK_PENALTY ELSE 0)
              ELSE RECOVERY_RATE
    IN  IF away /\ duration > cfg.SUSPICIOUS_GAZE_THRESHOLD
        THEN (i1 + moved) * DURATION_MULTIPLIER ELSE i1 + moved

\* mutant: the head-movement penalty added after the multiplication
calculate_suspicion_increase_head_unscaled(cfg, away, duration, velocity_sq, yaw, pitch) ==
    LET i1 == IF away
              THEN LOOKING_AWAY_PENALTY
                   + (IF RGt(pitch, R(DOWNWARD_GAZE_ANGLE)) THEN DOWNWARD_LOOK_PENALTY ELSE 0)
                   + (IF RGt(RAbs(yaw), Rat(SIDE_GAZE_ANGLE * 15, 10)) THEN SIDE_LOOK_PENALTY ELSE 0)
              ELSE 0
        i2 == IF duration > cfg.SUSPICIOUS_GAZE_THRESHOLD
              THEN i1 * DURATION_MULTIPLIER ELSE i1
        i3 == IF VelocityExceeds(velocity_sq, HEAD_MOVEMENT_THRESHOLD)
              THEN i2 + HEAD_MOVEMENT_PENALTY ELSE i2
    IN  IF ~away THEN RECOVERY_RATE ELSE i3

calculate_suspicion_increase(cfg, away, duration, velocity_sq, yaw, pitch) ==
    LET i1 == IF away
              THEN LOOKING_AWAY_PENALTY
                   + (IF RGt(pitch, R(DOWNWARD_GAZE_ANGLE)) THEN DOWNWARD_LOOK_PENALTY ELSE 0)
                   + (IF RGt(RAbs(yaw), Rat(SIDE_GAZE_ANGLE * 15, 10)) THEN SIDE_LOOK_PENALTY ELSE 0)
              ELSE 0
        i2 == IF VelocityExceeds(velocity_sq, HEAD_MOVEMENT_THRESHOLD)
              THEN i1 + HEAD_MOVEMENT_PENALTY ELSE i1
        i3 == IF duration > cfg.SUSPICIOUS_GAZE_THRESHOLD
              THEN i2 * DURATION_MULTIPLIER ELSE i2
    IN  IF ~away THEN RECOVERY_RATE ELSE i3

\* mutant: the new alert replaces the log
trigger_alert_replacing(s, reason, t) ==
    [s EXCEPT !.last_alert_time = t,
              !.alert_active = TRUE,
              !.cheating_alerts = <<[timestamp |-> t,
                                     reason |-> reason,
                                     suspicion_score |-> s.suspicion_score,
                                     total_away_time |-> s.total_looking_away_time,
                                     patterns |-> s.repeated_patterns,
                                     alert_info |-> ALERT_MESSAGES(reason)]>>]

\* 'timestamp' is datetime.now().isoformat(): the wall clock read once more
\* within the call, kept here as the same reading t
trigger_alert(s, reason, t) ==
    LET alert == [timestamp |-> t,
                  reason |-> reason,
                  suspicion_score |-> s.suspicion_score,
                  total_away_time |-> s.total_looking_away_time,
                  patterns |-> s.repeated_patterns,
                  alert_info |-> ALERT_MESSAGES(reason)]
    IN  [s EXCEPT !.last_alert_time = t,
                  !.alert_active = TRUE,
                  !.cheating_alerts = Append(@, alert)]

\* mutant: the cooldown check left out
InCooldownOmitted(s, t) == FALSE

\* mutant: the cooldown window one second longer
InCooldownLong(s, t) == t - s.last_alert_time < ALERT_COOLDOWN + 1

\* line 220: current_time - self.last_alert_time < ALERT_COOLDOWN
InCooldown(s, t) == t - s.last_alert_time < ALERT_COOLDOWN

\* mutant: the pattern counters tested before the suspicious duration
determine_alert_level_patterns_first(cfg, s, looking_away_duration, t) ==
    IF InCooldown(s, t)
    THEN [state |-> s,
          level |-> IF s.alert_active THEN "ONGOING_ALERT" ELSE "NO_ALERT"]
    ELSE IF s.suspicion_score > cfg.HIGH_SUSPICION_THRESHOLD
    THEN [state |-> trigger_alert(s, "HIGH_SUSPICION", t), level |-> "CHEATING_DETECTED"]
    ELSE IF looking_away_duration > cfg.CHEATING_GAZE_THRESHOLD
    THEN [state |-> trigger_alert(s, "PROLONGED_DISTRACTION", t), level |-> "CHEATING_DETECTED"]
    ELSE IF \/ s.repeated_patterns.downward_looks > cfg.MAX_DOWNWARD_LOOKS
            \/ s.repeated_patterns.side_looks > cfg.MAX_SIDE_LOOKS
            \/ s.repeated_patterns.head_turns > MAX_HEAD_TURNS
    THEN [state |-> trigger_alert(s, "REPETITIVE_PATTERNS", t), level |-> "CHEATING_DETECTED"]
    ELSE IF looking_away_duration > cfg.SUSPICIOUS_GAZE_THRESHOLD
    THEN [state |-> s, level |-> "SUSPICIOUS_BEHAVIOR"]
    ELSE [state |-> [s EXCEPT !.alert_active = FALSE], level |-> "NO_ALERT"]

\* mutant: inside the cooldown a score of 0 clears the alert
determine_alert_level_cooldown_clears(cfg, s, looking_away_duration, t) ==
    IF InCooldown(s, t)
    THEN IF s.suspicion_score = 0
         THEN [state |-> [s EXCEPT !.alert_active = FALSE], level |-> "NO_ALERT"]
         ELSE [state |-> s,
               level |-> IF s.alert_active THEN "ONGOING_ALERT" ELSE "NO_ALERT"]
    ELSE IF s.suspicion_score > cfg.HIGH_SUSPICION_THRESHOLD
    THEN [state |-> trigger_alert(s, "HIGH_SUSPICION", t), level |-> "CHEATING_DETECTED"]
    ELSE IF looking_away_duration > cfg.CHEATING_GAZE_THRESHOLD
    THEN [state |-> trigger_alert(s, "PROLONGED_DISTRACTION", t), level |-> "CHEATING_DETECTED"]
    ELSE IF looking_away_duration > cfg.SUSPICIOUS_GAZE_THRESHOLD
    THEN [state |-> s, level |-> "SUSPICIOUS_BEHAVIOR"]
    ELSE IF \/ s.repeated_patterns.downward_looks > cfg.MAX_DOWNWARD_LOOKS
            \/ s.repeated_patterns.side_looks > cfg.MAX_SIDE_LOOKS
            \/ s.repeated_patterns.head_turns > MAX_HEAD_TURNS
    THEN [state |-> trigger_alert(s, "REPETITIVE_PATTERNS", t), level |-> "CHEATING_DETECTED"]
    ELSE [state |-> [s EXCEPT !.alert_active = FALSE], level |-> "NO_ALERT"]

\* mutant: the pattern counters not tested
determine_alert_level_no_patterns(cfg, s, looking_away_duration, t) ==
    IF InCooldown(s, t)
    THEN [state |-> s,
          level |-> IF s.alert_active THEN "ONGOING_ALERT" ELSE "NO_ALERT"]
    ELSE IF s.suspicion_score > cfg.HIGH_SUSPICION_THRESHOLD
    THEN [state |-> trigger_alert(s, "HIGH_SUSPICION", t), level |-> "CHEATING_DETECTED"]
    ELSE IF looking_away_duration > cfg.CHEATING_GAZE_THRESHOLD
    THEN [state |-> trigger_alert(s, "PROLONGED_DISTRACTION", t), level |-> "CHEATING_DETECTED"]
    ELSE IF looking_away_duration > cfg.SUSPICIOUS_GAZE_THRESHOLD
    THEN [state |-> s, level |-> "SUSPICIOUS_BEHAVIOR"]
    ELSE [state |-> [s EXCEPT !.alert_active = FALSE], level |-> "NO_ALERT"]

determine_alert_level(cfg, s, looking_away_duration, t) ==
    IF InCooldown(s, t)
    THEN [state |-> s,
          level |-> IF s.alert_active THEN "ONGOING_ALERT" ELSE "NO_ALERT"]
    ELSE IF s.suspicion_score > cfg.HIGH_SUSPICION_THRESHOLD
    THEN [state |-> trigger_alert(s, "HIGH_SUSPICION", t), level |-> "CHEATING_DETECTED"]
    ELSE IF looking_away_duration > cfg.CHEATING_GAZE_THRESHOLD
    THEN [state |-> trigger_alert(s, "PROLONGED_DISTRACTION", t), level |-> "CHEATING_DETECTED"]
    ELSE IF looking_away_duration > cfg.SUSPICIOUS_GAZE_THRESHOLD
    THEN [state |-> s, level |-> "SUSPICIOUS_BEHAVIOR"]
    ELSE IF \/ s.repeated_patterns.downward_looks > cfg.MAX_DOWNWARD_LOOKS
            \/ s.repeated_patterns.side_looks > cfg.MAX_SIDE_LOOKS
            \/ s.repeated_patterns.head_turns > MAX_HEAD_TURNS
    THEN [state |-> trigger_alert(s, "REPETITIVE_PATTERNS", t), level |-> "CHEATING_DETECTED"]
    ELSE [state |-> [s EXCEPT !.alert_active = FALSE], level |-> "NO_ALERT"]

\* extra_data is None or Some(record); result.update(extra_data)
create_detection_result(s, away, alert_level, timestamp, extra_data) ==
    LET result == [timestamp |-> timestamp,
                   is_looking_away |-> away,
                   alert_level |-> alert_level,
                   suspicion_score |-> s.suspicion_score,
                   total_alerts |-> Len(s.cheating_alerts)]
    IN  IF IsNone(extra_data) THEN result ELSE Get(extra_data) @@ result

\* mutant: the away timer restarted by every away frame
TrackLookingAwayRestarting(s, away, t) ==
    IF away
    THEN [state |-> [s EXCEPT !.looking_away_start = Some(t)],
          looking_away_duration |-> 0]
    ELSE IF ~IsNone(s.looking_away_start)
    THEN [state |-> [s EXCEPT !.total_looking_away_time = @ + (t - Get(s.looking_away_start)),
                              !.looking_away_start = None],
          looking_away_duration |-> 0]
    ELSE [state |-> s, looking_away_duration |-> 0]

\* mutant: the away timer left running when the gaze returns
TrackLookingAwayUncleared(s, away, t) ==
    IF away
    THEN LET start == IF IsNone(s.looking_away_start) THEN Some(t) ELSE s.looking_away_start
         IN  [state |-> [s EXCEPT !.looking_away_start = start],
              looking_away_duration |-> t - Get(start)]
    ELSE IF ~IsNone(s.looking_away_start)
    THEN [state |-> [s EXCEPT !.total_looking_away_time = @ + (t - Get(s.looking_away_start))],
          looking_away_duration |-> 0]
    ELSE [state |-> s, looking_away_duration |-> 0]

\* mutant: the interval in progress added to the total by every away frame
TrackLookingAwayAccruing(s, away, t) ==
    IF away
    THEN LET start == IF IsNone(s.looking_away_start) THEN Some(t) ELSE s.looking_away_start
         IN  [state |-> [s EXCEPT !.looking_away_start = start,
                                  !.total_looking_away_time = @ + (t - Get(start))],
              looking_away_duration |-> t - Get(start)]
    ELSE IF ~IsNone(s.looking_away_start)
    THEN [state |-> [s EXCEPT !.looking_away_start = None],
          looking_away_duration |-> 0]
    ELSE [state |-> s, looking_away_duration |-> 0]

\* mutant: a closed away interval counted twice
TrackLookingAwayDoubled(s, away, t) ==
    IF away
    THEN LET start == IF IsNone(s.looking_away_start) THEN Some(t) ELSE s.looking_away_start
         IN  [state |-> [s EXCEPT !.looking_away_start = start],
              looking_away_duration |-> t - Get(start)]
    ELSE IF ~IsNone(s.looking_away_start)
    THEN [state |-> [s EXCEPT !.total_looking_away_time = @ + 2 * (t - Get(s.looking_away_start)),
                              !.looking_away_start = None],
          looking_away_duration |-> 0]
    ELSE [state |-> s, looking_away_duration |-> 0]

\* lines 107-120: the away timer
TrackLookingAway(s, away, t) ==
    IF away
    THEN LET start == IF IsNone(s.looking_away_start) THEN Some(t) ELSE s.looking_away_start
         IN  [state |-> [s EXCEPT !.looking_away_start = start],
              looking_away_duration |-> t - Get(start)]
    ELSE IF ~IsNone(s.looking_away_start)
    THEN [state |-> [s EXCEPT !.total_looking_away_time = @ + (t - Get(s.looking_away_start)),
                              !.looking_away_start = None],
          looking_away_duration |-> 0]
    ELSE [state |-> s, looking_away_duration |-> 0]

\* mutant: the score is floored at 0 but not capped
ClampScoreUncapped(score) == Max(0, score)

\* lines 132-133
ClampScore(score) == Min(MAX_SUSPICION_SCORE, Max(0, score))

\* mutant: the confidence floor set at 0.2
LowConfidenceLax(confidence) == RLt(confidence, Rat(2, 10))

\* confidence < 0.3
LowConfidence(confidence) == RLt(confidence, Rat(3, 10))

\* mutant: the frame's timestamp taken for the current time
current_time_of_frame(wall_clock, frame_timestamp) == frame_timestamp

\* line 91: current_time = time.time(); the frame_timestamp parameter is
\* not read
current_time(wall_clock, frame_timestamp) == wall_clock

\* mutant: a frame that is skipped ends the away interval
analyze_gaze_behavior_pausing(cfg, s, t, calibrated_gaze, facial_structure) ==
    IF IsNone(calibrated_gaze) \/ IsNone(facial_structure)
    THEN [state |-> [s EXCEPT !.looking_away_start = None],
          result |-> create_detection_result(s, FALSE, "No gaze data", t, None)]
    ELSE
    LET yaw == Get(calibrated_gaze).calibrated_yaw
        pitch == Get(calibrated_gaze).calibrated_pitch
        confidence == Get(calibrated_gaze).confidence
    IN  IF LowConfidence(confidence)
        THEN [state |-> [s EXCEPT !.looking_away_start = None],
              result |-> create_detection_result(s, FALSE, "Low confidence gaze data", t, None)]
        ELSE
        LET away == is_looking_away(yaw, pitch)
            tr == TrackLookingAway(s, away, t)
            hm == calculate_head_movement(tr.state, yaw, pitch)
            s3 == update_pattern_detection(hm.state, yaw, pitch)
            inc == calculate_suspicion_increase(cfg, away, tr.looking_away_duration,
                                                hm.velocity_sq, yaw, pitch)
            s4 == [s3 EXCEPT !.suspicion_score = ClampScore(@ + inc)]
            al == determine_alert_level(cfg, s4, tr.looking_away_duration, t)
            s5 == al.state
        IN  [state |-> s5,
             result |-> create_detection_result(s5, away, al.level, t,
                 Some([looking_away_duration |-> tr.looking_away_duration,
                       total_away_time |-> s5.total_looking_away_time,
                       suspicion_score |-> s5.suspicion_score,
                       head_movement_velocity_sq |-> hm.velocity_sq,
                       yaw |-> yaw,
                       pitch |-> pitch,
                       confidence |-> confidence]))]

\* The whole call at wall-clock time t (frame_timestamp is never read).
\* calibrated_gaze and facial_structure are None or Some(record).
analyze_gaze_behavior(cfg, s, t, calibrated_gaze, facial_structure) ==
    IF IsNone(calibrated_gaze) \/ IsNone(facial_structure)
    THEN [state |-> s,
          result |-> create_detection_result(s, FALSE, "No gaze data", t, None)]
    ELSE
    LET yaw == Get(calibrated_gaze).calibrated_yaw
        pitch == Get(calibrated_gaze).calibrated_pitch
        confidence == Get(calibrated_gaze).confidence
    IN  IF LowConfidence(confidence)
        THEN [state |-> s,
              result |-> create_detection_result(s, FALSE, "Low confidence gaze data", t, None)]
        ELSE
        LET away == is_looking_away(yaw, pitch)
            tr == TrackLookingAway(s, away, t)
            hm == calculate_head_movement(tr.state, yaw, pitch)
            s3 == update_pattern_detection(hm.state, yaw, pitch)
            inc == calculate_suspicion_increase(cfg, away, tr.looking_away_duration,
                                                hm.velocity_sq, yaw, pitch)
            s4 == [s3 EXCEPT !.suspicion_score = ClampScore(@ + inc)]
            al == determine_alert_level(cfg, s4, tr.looking_away_duration, t)
            s5 == al.state
        IN  [state |-> s5,
             result |-> create_detection_result(s5, away, al.level, t,
                 Some([looking_away_duration |-> tr.looking_away_duration,
                       total_away_time |-> s5.total_looking_away_time,
                       suspicion_score |-> s5.suspicion_score,
                       head_movement_velocity_sq |-> hm.velocity_sq,
                       yaw |-> yaw,
                       pitch |-> pitch,
                       confidence |-> confidence]))]

\* mutant: the HIGH bucket starting at a count of 10
generate_behavior_analysis_high_at_ten(s) ==
    LET present == {k \in {"downward_looks", "side_looks", "head_turns"} :
                        s.repeated_patterns[k] > 0}
    IN  [k \in present |->
            [count |-> s.repeated_patterns[k],
             severity |-> IF s.repeated_patterns[k] >= 10 THEN "HIGH"
                          ELSE IF s.repeated_patterns[k] > 5 THEN "MEDIUM"
                          ELSE "LOW"]]

generate_behavior_analysis(s) ==
    LET present == {k \in {"downward_looks", "side_looks", "head_turns"} :
                        s.repeated_patterns[k] > 0}
    IN  [k \in present |->
            [count |-> s.repeated_patterns[k],
             severity |-> IF s.repeated_patterns[k] > 10 THEN "HIGH"
                          ELSE IF s.repeated_patterns[k] > 5 THEN "MEDIUM"
                          ELSE "LOW"]]

get_session_summary(s, t) ==
    LET session_duration == t - s.session_start_time
    IN  [session_duration |-> session_duration,
         total_alerts |-> Len(s.cheating_alerts),
         total_looking_away_time |-> s.total_looking_away_time,
         away_time_percentage |->
             IF session_duration > 0
             THEN Rat(s.total_looking_away_time * 100, session_duration)
             ELSE R(0),
         final_suspicion_score |-> s.suspicion_score,
         repeated_patterns |-> s.repeated_patterns,
         alerts |-> s.cheating_alerts,
         behavior_analysis |-> generate_behavior_analysis(s)]

\* mutant: the counters decremented without the floor at 0
reset_patterns_unfloored(s) ==
    [s EXCEPT !.repeated_patterns = [k \in DOMAIN @ |-> @[k] - 1]]

reset_patterns(s) ==
    [s EXCEPT !.repeated_patterns =
        [k \in DOMAIN @ |-> Max(0, @[k] - 1)]]

\* mutant: strict mode assigning the two duration thresholds only
set_detection_mode_partial(cfg, mode) ==
    IF mode = "strict"
    THEN [cfg EXCEPT !.SUSPICIOUS_GAZE_THRESHOLD = StrictAttrs.SUSPICIOUS_GAZE_THRESHOLD,
                     !.CHEATING_GAZE_THRESHOLD = StrictAttrs.CHEATING_GAZE_THRESHOLD]
    ELSE IF mode = "lenient" THEN LenientAttrs
    ELSE ModerateAttrs

\* the class attributes after set_detection_mode(mode); any other name
\* takes the else branch
set_detection_mode(cfg, mode) ==
    IF mode = "strict" THEN StrictAttrs
    ELSE IF mode = "lenient" THEN LenientAttrs
    ELSE ModerateAttrs


(****************** core/gaze_calibrator.py: GazeCalibrator ****************)
\* self.adaptation_frames
ADAPTATION_FRAMES == 30
\* the landmarks analyze_facial_structure needs
MIN_LANDMARKS == 5
\* the pixel tolerances of _calculate_confidence
SIZE_TOLERANCE == 200
EYE_TOLERANCE == 50
\* np.pi in hundredths of a radian, to four decimals: 314.16
PI == Rat(31416, 100)

\* math.sqrt on the squares the inputs produce (perfect squares)
Sqrt(n) == CHOOSE r \in 0..n : r * r = n

RECURSIVE SumOver(_, _)
SumOver(f, S) ==
    IF S = {} THEN 0
    ELSE LET x == CHOOSE y \in S : TRUE IN f[x] + SumOver(f, S \ {x})

\* calibration_data holds three lists appended in step, one entry per
\* accepted frame; the code reads them only through np.mean, np.std and
\* len, which do not depend on the order, so the model keeps the bag of
\* per-frame samples [face_dimensions, eye_distance, head_pose].
\* col is the column read: a function from the samples to numbers.
Total(data, col) ==
    SumOver([e \in BagToSet(data) |-> col[e] * CopiesIn(e, data)], BagToSet(data))

\* np.mean of a column
np_mean(data, col) == Rat(Total(data, col), BagCardinality(data))

\* np.std of a column, kept as its square, the population variance
\* (n * sum(x^2) - sum(x)^2) / n^2
np_var(data, col) ==
    LET n == BagCardinality(data)
        sq == [e \in DOMAIN col |-> col[e] * col[e]]
    IN  Rat(n * Total(data, sq) - Total(data, col) * Total(data, col), n * n)

\* GazeCalibrator.__init__
NewCalibrator ==
    [face_baseline |-> None,
     eye_baseline |-> None,
     head_pose_baseline |-> None,
     frame_count |-> 0,
     calibration_data |-> EmptyBag]

\* mutant: an eye landmark at the origin taken for a missing one
analyze_facial_structure_origin_missing(face) ==
    IF Len(face.landmarks) < MIN_LANDMARKS THEN None
    ELSE IF \E i \in {1, 2} : face.landmarks[i].x = 0 /\ face.landmarks[i].y = 0 THEN None
    ELSE
    LET dx == face.landmarks[2].x - face.landmarks[1].x
        dy == face.landmarks[2].y - face.landmarks[1].y
    IN  Some([face_dimensions |-> <<face.width, face.height>>,
              eye_distance |-> Sqrt(dx * dx + dy * dy),
              eye_center |-> <<Rat(face.landmarks[1].x + face.landmarks[2].x, 2),
                               Rat(face.landmarks[1].y + face.landmarks[2].y, 2)>>,
              left_eye |-> face.landmarks[1],
              right_eye |-> face.landmarks[2],
              nose_tip |-> face.landmarks[3]])

\* face = [width, height, landmarks]; landmarks is a sequence of [x, y]
analyze_facial_structure(face) ==
    IF Len(face.landmarks) < MIN_LANDMARKS THEN None
    ELSE
    LET left_eye == face.landmarks[1]
        right_eye == face.landmarks[2]
        nose_tip == face.landmarks[3]
        dx == right_eye.x - left_eye.x
        dy == right_eye.y - left_eye.y
    IN  Some([face_dimensions |-> <<face.width, face.height>>,
              eye_distance |-> Sqrt(dx * dx + dy * dy),
              eye_center |-> <<Rat(left_eye.x + right_eye.x, 2),
                               Rat(left_eye.y + right_eye.y, 2)>>,
              left_eye |-> left_eye,
              right_eye |-> right_eye,
              nose_tip |-> nose_tip])

is_calibrated(c) ==
    /\ ~IsNone(c.face_baseline)
    /\ ~IsNone(c.eye_baseline)
    /\ ~IsNone(c.head_pose_baseline)

establish_baseline(c) ==
    LET data == c.calibration_data
        samples == BagToSet(data)
        width == [e \in samples |-> e.face_dimensions[1]]
        height == [e \in samples |-> e.face_dimensions[2]]
        distance == [e \in samples |-> e.eye_distance]
        yaw == [e \in samples |-> e.head_pose[1]]
        pitch == [e \in samples |-> e.head_pose[2]]
    IN  IF BagCardinality(data) > 0
        THEN [c EXCEPT
                !.face_baseline = Some([width |-> np_mean(data, width),
                                        height |-> np_mean(data, height),
                                        width_var |-> np_var(data, width),
                                        height_var |-> np_var(data, height)]),
                !.eye_baseline = Some([distance |-> np_mean(data, distance),
                                       distance_var |-> np_var(data, distance)]),
                !.head_pose_baseline = Some([yaw |-> np_mean(data, yaw),
                                             pitch |-> np_mean(data, pitch),
                                             yaw_var |-> np_var(data, yaw),
                                             pitch_var |-> np_var(data, pitch)])]
        ELSE c

\* mutant: baselines established one sample late
BaselineDueLate(frame_count) == frame_count > ADAPTATION_FRAMES

\* mutant: baselines established one sample early
BaselineDueEarly(frame_count) == frame_count >= ADAPTATION_FRAMES - 1

\* line 74: the test that decides whether this call establishes baselines
BaselineDue(frame_count) == frame_count >= ADAPTATION_FRAMES

\* gaze_data = [yaw, pitch, face]; facial_structure is None or Some(record)
update_baseline(c, gaze_data, facial_structure) ==
    IF IsNone(facial_structure) THEN [state |-> c, result |-> FALSE]
    ELSE
    LET fs == Get(facial_structure)
        sample == [face_dimensions |-> fs.face_dimensions,
                   eye_distance |-> fs.eye_distance,
                   head_pose |-> <<gaze_data.yaw, gaze_data.pitch>>]
        c1 == [c EXCEPT !.calibration_data = @ (+) SetToBag({sample}),
                        !.frame_count = @ + 1]
    IN  IF BaselineDue(c1.frame_count)
        THEN [state |-> establish_baseline(c1), result |-> TRUE]
        ELSE [state |-> c1, result |-> FALSE]

\* mutant: the two deviations not capped at their tolerances
calculate_confidence_uncapped(c, facial_structure) ==
    IF IsNone(c.face_baseline) \/ IsNone(facial_structure) THEN R(0)
    ELSE
    LET fs == Get(facial_structure)
        face_width_diff == RAbs(RSub(R(fs.face_dimensions[1]), Get(c.face_baseline).width))
        face_height_diff == RAbs(RSub(R(fs.face_dimensions[2]), Get(c.face_baseline).height))
        size_consistency ==
            RSub(R(1), RDiv(RAdd(face_width_diff, face_height_diff), R(SIZE_TOLERANCE)))
        eye_dist_diff == RAbs(RSub(R(fs.eye_distance), Get(c.eye_baseline).distance))
        eye_consistency == RSub(R(1), RDiv(eye_dist_diff, R(EYE_TOLERANCE)))
    IN  RDiv(RAdd(size_consistency, eye_consistency), R(2))

calculate_confidence(c, facial_structure) ==
    IF IsNone(c.face_baseline) \/ IsNone(facial_structure) THEN R(0)
    ELSE
    LET fs == Get(facial_structure)
        face_width_diff == RAbs(RSub(R(fs.face_dimensions[1]), Get(c.face_baseline).width))
        face_height_diff == RAbs(RSub(R(fs.face_dimensions[2]), Get(c.face_baseline).height))
        size_consistency ==
            RSub(R(1), RMin(R(1), RDiv(RAdd(face_width_diff, face_height_diff),
                                       R(SIZE_TOLERANCE))))
        eye_dist_diff == RAbs(RSub(R(fs.eye_distance), Get(c.eye_baseline).distance))
        eye_consistency == RSub(R(1), RMin(R(1), RDiv(eye_dist_diff, R(EYE_TOLERANCE))))
    IN  RDiv(RAdd(size_consistency, eye_consistency), R(2))

\* mutant: the upper bound of the clip left out
np_clip_unbounded_above(x, lo, hi) == RMax(lo, x)

\* np.clip(x, lo, hi)
np_clip(x, lo, hi) == RMax(lo, RMin(x, hi))

\* mutant: the head-pose baseline not subtracted from the raw angles
calibrated_gaze_prediction_unoffset(c, gaze_data, facial_structure) ==
    IF ~is_calibrated(c) THEN None
    ELSE
    LET fs == Get(facial_structure)
        face_scale_x == RDiv(R(fs.face_dimensions[1]), Get(c.face_baseline).width)
        face_scale_y == RDiv(R(fs.face_dimensions[2]), Get(c.face_baseline).height)
        calibrated_yaw == RMul(R(gaze_data.yaw), face_scale_x)
        calibrated_pitch == RMul(R(gaze_data.pitch), face_scale_y)
    IN  Some([calibrated_yaw |-> np_clip(calibrated_yaw, RDiv(PI, R(-2)), RDiv(PI, R(2))),
              calibrated_pitch |-> np_clip(calibrated_pitch, RDiv(PI, R(-3)), RDiv(PI, R(3))),
              raw_yaw |-> gaze_data.yaw,
              raw_pitch |-> gaze_data.pitch,
              confidence |-> calculate_confidence(c, facial_structure)])

\* facial_structure is Some(record): every caller passes a present one
calibrated_gaze_prediction(c, gaze_data, facial_structure) ==
    IF ~is_calibrated(c) THEN None
    ELSE
    LET fs == Get(facial_structure)
        raw_yaw == gaze_data.yaw
        raw_pitch == gaze_data.pitch
        head_yaw_offset == RSub(R(raw_yaw), Get(c.head_pose_baseline).yaw)
        head_pitch_offset == RSub(R(raw_pitch), Get(c.head_pose_baseline).pitch)
        face_scale_x == RDiv(R(fs.face_dimensions[1]), Get(c.face_baseline).width)
        face_scale_y == RDiv(R(fs.face_dimensions[2]), Get(c.face_baseline).height)
        calibrated_yaw == RMul(head_yaw_offset, face_scale_x)
        calibrated_pitch == RMul(head_pitch_offset, face_scale_y)
    IN  Some([calibrated_yaw |-> np_clip(calibrated_yaw, RDiv(PI, R(-2)), RDiv(PI, R(2))),
              calibrated_pitch |-> np_clip(calibrated_pitch, RDiv(PI, R(-3)), RDiv(PI, R(3))),
              raw_yaw |-> raw_yaw,
              raw_pitch |-> raw_pitch,
              confidence |-> calculate_confidence(c, facial_structure)])


(********************** app/detection.py, app/tasks.py *********************)
\* One pass of the loop body of _process_single_frame for one detected face:
\* st = [calibrator, detector, analysis]; t is the wall clock.
ProcessGaze(cfg, st, t, gaze) ==
    LET facial_structure == analyze_facial_structure(gaze.face)
    IN  IF IsNone(facial_structure) THEN st
        ELSE
        LET ub == update_baseline(st.calibrator, gaze, facial_structure)
            calibrated_gaze == calibrated_gaze_prediction(ub.state, gaze, facial_structure)
        IN  IF ~IsNone(calibrated_gaze) /\ is_calibrated(ub.state)
            THEN LET dr == analyze_gaze_behavior(cfg, st.detector, t,
                                                 calibrated_gaze, facial_structure)
                 IN  [calibrator |-> ub.state,
                      detector |-> dr.state,
                      analysis |-> [alert_level |-> dr.result.alert_level,
                                    suspicion_score |-> dr.result.suspicion_score]]
            ELSE [st EXCEPT !.calibrator = ub.state]

\* for gaze in gazes: ...
RECURSIVE ProcessGazes(_, _, _, _)
ProcessGazes(cfg, st, t, gazes) ==
    IF gazes = <<>> THEN st
    ELSE ProcessGazes(cfg, ProcessGaze(cfg, st, t, Head(gazes)), t, Tail(gazes))

\* _process_single_frame on the faces detect_gazes returned for the frame
process_single_frame(cfg, c, s, t, gazes) ==
    ProcessGazes(cfg,
                 [calibrator |-> c, detector |-> s,
                  analysis |-> [alert_level |-> "NO_ALERT", suspicion_score |-> 0]],
                 t, gazes)

(********************************* inputs **********************************)
\* a calibrated gaze as GazeCalibrator returns it (angles in hundredths of a
\* radian, confidence in hundredths)
CG(yaw, pitch, confidence) ==
    Some([calibrated_yaw |-> R(yaw), calibrated_pitch |-> R(pitch),
          raw_yaw |-> yaw, raw_pitch |-> pitch,
          confidence |-> Rat(confidence, 100)])

\* a facial structure as analyze_facial_structure returns it
SomeStructure ==
    Some([face_dimensions |-> <<150, 200>>, eye_distance |-> 60])

\* Spec, <<calibrated_gaze, facial_structure>>: attentive, looking down, far
\* to the left, a head turn that is not yet a side look, looking down with
\* the confidence at the 0.3 boundary; then the frames the guard rejects:
\* low confidence, no gaze, no structure
AnalyzeInputs ==
    {<<CG(0, 0, 90), SomeStructure>>, <<CG(0, 50, 90), SomeStructure>>,
     <<CG(-80, 0, 90), SomeStructure>>, <<CG(45, 0, 90), SomeStructure>>,
     <<CG(0, 50, 30), SomeStructure>>,
     <<CG(0, 50, 29), SomeStructure>>, <<None, SomeStructure>>,
     <<CG(0, 50, 90), None>>}

\* SpecStress: attentive, and far to either side while looking down
StressInputs == {CG(0, 0, 90), CG(80, 50, 90), CG(-80, 50, 90)}

\* seconds between two clock readings under Spec
TickSteps == {6, 10}

Modes == {"strict", "moderate", "lenient", "other"}

\* a face as the gaze service reports it: the eyes dx apart
Face(width, height, dx, landmarks) ==
    [width |-> width, height |-> height,
     landmarks |-> SubSeq(<<[x |-> 0, y |-> 0], [x |-> dx, y |-> 0],
                            [x |-> dx \div 2, y |-> 50], [x |-> 10, y |-> 30],
                            [x |-> dx - 10, y |-> 30]>>, 1, landmarks)]

RawGaze(yaw, pitch, face) == [yaw |-> yaw, pitch |-> pitch, face |-> face]

\* SpecCal: the usual face, a nearer face with the head turned and lowered,
\* and a face with too few landmarks
CalGazes ==
    {RawGaze(0, 0, Face(150, 200, 60, 5)),
     RawGaze(30, 60, Face(180, 230, 80, 5)),
     RawGaze(0, 0, Face(150, 200, 60, 4))}

\* SpecWorker: what detect_gazes returns for a frame: no face, the face of
\* its fallback branch (lines 28-44), or that face twice
FrameInputs ==
    {<<>>,
     <<RawGaze(0, 0, Face(150, 200, 60, 5))>>,
     <<RawGaze(0, 0, Face(150, 200, 60, 5)), RawGaze(0, 0, Face(150, 200, 60, 5))>>}

(********************************* actions *********************************)
Init ==
    /\ now = ClockStart
    /\ config = ClassAttrs
    /\ detector = [d \in Detectors |-> NewDetector(ClockStart)]
    /\ calibrator = NewCalibrator
    /\ worker = [videos |-> 0, running |-> FALSE, frame_count |-> 0]
    /\ ret = [op |-> "init"]

\* the wall clock advances by step seconds
Tick(step, limit) ==
    /\ now + step <= ClockStart + limit
    /\ now' = now + step
    /\ ret' = [op |-> "tick"]
    /\ UNCHANGED <<config, detector, calibrator, worker>>

Analyze(d, calibrated_gaze, facial_structure) ==
    LET r == analyze_gaze_behavior(ConfigOf(d), detector[d], now,
                                   calibrated_gaze, facial_structure)
    IN  /\ detector' = [detector EXCEPT ![d] = r.state]
        /\ ret' = [op |-> "analyze_gaze_behavior", inst |-> d,
                   calibrated_gaze |-> calibrated_gaze,
                   facial_structure |-> facial_structure,
                   value |-> r.result]
        /\ UNCHANGED <<now, config, calibrator, worker>>

ResetPatterns(d) ==
    /\ detector' = [detector EXCEPT ![d] = reset_patterns(@)]
    /\ ret' = [op |-> "reset_patterns", inst |-> d]
    /\ UNCHANGED <<now, config, calibrator, worker>>

SetDetectionMode(d, mode) ==
    /\ config' = set_detection_mode(config, mode)
    /\ ret' = [op |-> "set_detection_mode", inst |-> d, mode |-> mode]
    /\ UNCHANGED <<now, detector, calibrator, worker>>

GetSessionSummary(d) ==
    /\ ret' = [op |-> "get_session_summary", inst |-> d,
               value |-> get_session_summary(detector[d], now)]
    /\ UNCHANGED <<now, config, detector, calibrator, worker>>

AnalyzeFacialStructure(gaze) ==
    /\ ret' = [op |-> "analyze_facial_structure", face |-> gaze.face,
               value |-> analyze_facial_structure(gaze.face)]
    /\ UNCHANGED <<now, config, detector, calibrator, worker>>

\* update_baseline(gaze, analyze_facial_structure(gaze["face"]))
UpdateBaseline(gaze) ==
    LET facial_structure == analyze_facial_structure(gaze.face)
        r == update_baseline(calibrator, gaze, facial_structure)
    IN  /\ calibrator' = r.state
        /\ ret' = [op |-> "update_baseline", gaze |-> gaze,
                   facial_structure |-> facial_structure, value |-> r.result]
        /\ UNCHANGED <<now, config, detector, worker>>

\* calibrated_gaze_prediction(gaze, facial_structure), structure present
CalibratedGazePrediction(gaze) ==
    LET facial_structure == analyze_facial_structure(gaze.face)
    IN  /\ ~IsNone(facial_structure)
        /\ ret' = [op |-> "calibrated_gaze_prediction", gaze |-> gaze,
                   facial_structure |-> facial_structure,
                   value |-> calibrated_gaze_prediction(calibrator, gaze, facial_structure)]
        /\ UNCHANGED <<now, config, detector, calibrator, worker>>

IsCalibrated ==
    /\ ret' = [op |-> "is_calibrated", value |-> is_calibrated(calibrator)]
    /\ UNCHANGED <<now, config, detector, calibrator, worker>>

\* process_video is called: run_detection starts on the module-level
\* processor, built once when app/tasks.py was imported
StartVideo ==
    /\ ~worker.running
    /\ worker.videos < MaxVideos
    /\ worker' = [videos |-> worker.videos + 1, running |-> TRUE, frame_count |-> 0]
    /\ ret' = [op |-> "process_video"]
    /\ UNCHANGED <<now, config, detector, calibrator>>

\* one turn of the frame loop of run_detection
ProcessFrame(gazes) ==
    LET r == process_single_frame(ConfigOf(1), calibrator, detector[1], now, gazes)
    IN  /\ worker.running
        /\ worker.frame_count < MaxVideoFrames
        /\ calibrator' = r.calibrator
        /\ detector' = [detector EXCEPT ![1] = r.detector]
        /\ worker' = [worker EXCEPT !.frame_count = @ + 1]
        /\ ret' = [op |-> "_process_single_frame", value |-> r.analysis]
        /\ UNCHANGED <<now, config>>

\* cap.read() returns no frame: the summary is taken and the task returns
FinishVideo ==
    /\ worker.running
    /\ worker' = [worker EXCEPT !.running = FALSE]
    /\ ret' = [op |-> "run_detection",
               value |-> get_session_summary(detector[1], now)]
    /\ UNCHANGED <<now, config, detector, calibrator>>

(****************************** specifications *****************************)
\* one CheatingDetector driven through its public methods
Next ==
    \/ \E step \in TickSteps : Tick(step, MaxTime)
    \/ \E in \in AnalyzeInputs :
          /\ Len(detector[1].head_movement_history) < MaxCalls
          /\ Analyze(1, in[1], in[2])
    \/ ResetPatterns(1)
    \/ \E mode \in Modes : SetDetectionMode(1, mode)
    \/ GetSessionSummary(1)

Spec == Init /\ [][Next]_vars

\* one CheatingDetector fed a frame every four seconds
StressFrame(cg) ==
    /\ Len(detector[1].head_movement_history) < MaxStressCalls
    /\ now' = now + 4
    /\ LET r == analyze_gaze_behavior(ConfigOf(1), detector[1], now', cg, SomeStructure)
       IN  /\ detector' = [detector EXCEPT ![1] = r.state]
           /\ ret' = [op |-> "analyze_gaze_behavior", inst |-> 1,
                      calibrated_gaze |-> cg, facial_structure |-> SomeStructure,
                      value |-> r.result]
    /\ UNCHANGED <<config, calibrator, worker>>

NextStress == \E cg \in StressInputs : StressFrame(cg)

SpecStress == Init /\ [][NextStress]_vars

\* one GazeCalibrator driven through its public methods
NextCal ==
    \/ \E gaze \in CalGazes :
          /\ calibrator.frame_count < MaxFrames
          /\ UpdateBaseline(gaze)
    \/ \E gaze \in CalGazes : AnalyzeFacialStructure(gaze)
    \/ \E gaze \in CalGazes : CalibratedGazePrediction(gaze)
    \/ IsCalibrated

SpecCal == Init /\ [][NextCal]_vars

\* one worker process handling videos one after the other
NextWorker ==
    \/ StartVideo
    \/ \E gazes \in FrameInputs : ProcessFrame(gazes)
    \/ FinishVideo
    \/ Tick(1, MaxVideos)

SpecWorker == Init /\ [][NextWorker]_vars

\* two sessions in one process, each with a CheatingDetector of its own
NextSessions ==
    \/ \E step \in {6} : Tick(step, 6)
    \/ \E d \in Detectors, cg \in {CG(0, 0, 90), CG(0, 50, 90)} :
          /\ Len(detector[d].head_movement_history) < MaxSessionCalls
          /\ Analyze(d, cg, SomeStructure)
    \/ \E d \in Detectors, mode \in Modes : SetDetectionMode(d, mode)

SpecSessions == Init /\ [][NextSessions]_vars

\* SpecScenario: looking down (pitch 0.5) and attentive, confidence 0.9
ScenarioInputs == {CG(0, 50, 90), CG(0, 0, 90)}

\* SpecAttentive: frames that are not looking away: attentive, the head
\* turned by 0.45 (above HEAD_MOVEMENT_THRESHOLD, below SIDE_GAZE_ANGLE),
\* and a frame the confidence guard rejects
AttentiveInputs == {CG(0, 0, 90), CG(45, 0, 90), CG(0, 50, 29)}

\* a frame analysed step seconds after the previous one
TimedFrame(step, limit, cg) ==
    /\ now + step <= ClockStart + limit
    /\ now' = now + step
    /\ LET r == analyze_gaze_behavior(ConfigOf(1), detector[1], now', cg, SomeStructure)
       IN  /\ detector' = [detector EXCEPT ![1] = r.state]
           /\ ret' = [op |-> "analyze_gaze_behavior", inst |-> 1,
                      calibrated_gaze |-> cg, facial_structure |-> SomeStructure,
                      value |-> r.result]
    /\ UNCHANGED <<config, calibrator, worker>>

\* one CheatingDetector fed a frame every second, down or attentive
NextScenario == \E cg \in ScenarioInputs : TimedFrame(1, MaxScenarioFrames, cg)

SpecScenario == Init /\ [][NextScenario]_vars

\* one CheatingDetector fed a frame every second, none looking away
NextAttentive == \E cg \in AttentiveInputs : TimedFrame(1, MaxAttentiveFrames, cg)

SpecAttentive == Init /\ [][NextAttentive]_vars


(********************************* claims **********************************)
\* the guard of analyze_gaze_behavior as the claims state it: an absent
\* gaze, an absent structure, or a confidence below 0.3
RejectedInput(calibrated_gaze, facial_structure) ==
    \/ calibrated_gaze = None
    \/ facial_structure = None
    \/ Get(calibrated_gaze).confidence.num * 10 < 3 * Get(calibrated_gaze).confidence.den

AnalyzeReturned == ret.op = "analyze_gaze_behavior"

\* C1: after every analyze_gaze_behavior call, whatever the inputs were,
\* suspicion_score (the field and the value returned) lies in
\* [0, MAX_SUSPICION_SCORE].
C1_ScoreWithinBounds ==
    /\ detector[1].suspicion_score >= 0
    /\ detector[1].suspicion_score <= MAX_SUSPICION_SCORE
    /\ AnalyzeReturned =>
          /\ ret.value.suspicion_score >= 0
          /\ ret.value.suspicion_score <= MAX_SUSPICION_SCORE

\* C1 witness: an analyze call has driven the score to the cap
C1_ScoreAtCap ==
    /\ AnalyzeReturned
    /\ ret.value.is_looking_away
    /\ detector[1].suspicion_score = MAX_SUSPICION_SCORE

\* C2: time advancing monotonically, an alert fired at T is followed by no
\* alert before T + ALERT_COOLDOWN: any two consecutive alerts of the log
\* are at least ALERT_COOLDOWN apart, and last_alert_time is the time of
\* the last one.
C2_AlertsCooldownApart ==
    LET alerts == detector[1].cheating_alerts
    IN  /\ \A i \in 1..(Len(alerts) - 1) :
              alerts[i + 1].timestamp - alerts[i].timestamp >= ALERT_COOLDOWN
        /\ Len(alerts) > 0 =>
              detector[1].last_alert_time = alerts[Len(alerts)].timestamp

\* C2 witness: a second alert was fired, exactly ALERT_COOLDOWN after the
\* first
C2_SecondAlertAtCooldown ==
    LET alerts == detector[1].cheating_alerts
    IN  /\ Len(alerts) >= 2
        /\ alerts[2].timestamp - alerts[1].timestamp = ALERT_COOLDOWN

\* C3: an analyze_gaze_behavior call whose gaze or structure is absent, or
\* whose confidence is below 0.3, leaves every field of the detector
\* unchanged.
C3_RejectedFrameChangesNothing ==
    [][(/\ ret'.op = "analyze_gaze_behavior"
        /\ RejectedInput(ret'.calibrated_gaze, ret'.facial_structure))
       => detector' = detector]_vars

\* C3 witness: a low-confidence frame was rejected while the away timer
\* was running and the score was above 0
C3_RejectedWhileAway ==
    /\ AnalyzeReturned
    /\ ret.calibrated_gaze # None
    /\ ret.facial_structure # None
    /\ RejectedInput(ret.calibrated_gaze, ret.facial_structure)
    /\ detector[1].looking_away_start # None
    /\ detector[1].suspicion_score > 0

\* C4: an analyze_gaze_behavior call whose gaze or structure is absent, or
\* whose confidence is below 0.3, returns a result whose alert_level is
\* NO_ALERT.
C4_RejectedFrameReportsNoAlert ==
    (/\ AnalyzeReturned
     /\ RejectedInput(ret.calibrated_gaze, ret.facial_structure))
    => ret.value.alert_level = "NO_ALERT"

\* the three baselines of a calibrator
Baselines(c) == <<c.face_baseline, c.eye_baseline, c.head_pose_baseline>>

\* C5: once the baselines are established, no later update_baseline or
\* calibrated_gaze_prediction call changes any baseline value.
C5_BaselinesFrozen ==
    [][is_calibrated(calibrator) => Baselines(calibrator') = Baselines(calibrator)]_vars

\* C6: update_baseline returns true exactly on the call that accepts the
\* 30th sample with a present facial structure, and false on every other
\* call.
C6_TrueExactlyOnce ==
    ret.op = "update_baseline" =>
        (ret.value <=> (/\ ret.facial_structure # None
                        /\ calibrator.frame_count = ADAPTATION_FRAMES))

\* C7: is_calibrated() is false until 30 samples with a present structure
\* have been accepted (calls with an absent structure do not count), true
\* from the 30th on, and never false again.
C7_CalibratedFromThirtiethSample ==
    /\ [](/\ calibrator.frame_count = BagCardinality(calibrator.calibration_data)
          /\ is_calibrated(calibrator) <=> calibrator.frame_count >= ADAPTATION_FRAMES
          /\ ret.op = "is_calibrated" =>
                (ret.value <=> calibrator.frame_count >= ADAPTATION_FRAMES))
    /\ [][/\ is_calibrated(calibrator) => is_calibrated(calibrator')
          /\ (ret'.op = "update_baseline" /\ ret'.facial_structure = None)
                => calibrator' = calibrator
          /\ calibrator'.frame_count \in {calibrator.frame_count,
                                          calibrator.frame_count + 1}]_vars

\* C7 witness: is_calibrated() answered true after a 31st sample
C7_CalibratedAfterThirtyOne ==
    /\ ret.op = "is_calibrated"
    /\ ret.value
    /\ calibrator.frame_count > ADAPTATION_FRAMES

C9_VideoStartsFresh ==
    (worker.running /\ worker.frame_count = 0) =>
        /\ calibrator = NewCalibrator
        /\ detector[1].suspicion_score = 0
        /\ detector[1].repeated_patterns =
              [downward_looks |-> 0, side_looks |-> 0, head_turns |-> 0]
        /\ detector[1].cheating_alerts = <<>>
        /\ detector[1].looking_away_start = None

\* the thresholds detector d works with
ThresholdsOf(d) ==
    [f \in {"SUSPICIOUS_GAZE_THRESHOLD", "CHEATING_GAZE_THRESHOLD", "MAX_DOWNWARD_LOOKS",
            "MAX_SIDE_LOOKS", "HIGH_SUSPICION_THRESHOLD"} |-> ConfigOf(d)[f]]

\* C10: no operation on one detector, set_detection_mode included, changes
\* the thresholds another detector works with.
C10_NoSharedThresholds ==
    [][\A d \in Detectors :
          (ret'.op = "set_detection_mode" /\ ret'.inst # d)
          => ThresholdsOf(d)' = ThresholdsOf(d)]_vars

\* the call just made was analysed: inputs present, confidence >= 0.3
ValidAnalyze(r) ==
    /\ r.op = "analyze_gaze_behavior"
    /\ ~RejectedInput(r.calibrated_gaze, r.facial_structure)

\* the head moved faster than HEAD_MOVEMENT_THRESHOLD since the last frame
MovedFast(r) ==
    VelocityExceeds(r.value.head_movement_velocity_sq, HEAD_MOVEMENT_THRESHOLD)

\* C11: on a valid call whose head-movement velocity exceeds
\* HEAD_MOVEMENT_THRESHOLD while the subject is not looking away, the score
\* changes by RECOVERY_RATE + HEAD_MOVEMENT_PENALTY (kept within the
\* bounds), not by RECOVERY_RATE alone.
C11_HeadMovementPenaltyOnRecovery ==
    [][(/\ ValidAnalyze(ret')
        /\ ~ret'.value.is_looking_away
        /\ MovedFast(ret'))
       => detector'[1].suspicion_score =
             ClampScore(detector[1].suspicion_score
                        + RECOVERY_RATE + HEAD_MOVEMENT_PENALTY)]_vars

\* C12: every valid call in which the subject is not looking away changes
\* the score by exactly RECOVERY_RATE floored at 0, whatever the head
\* velocity: the score never increases on such a call, and stays at 0 once
\* there.
C12_RecoveryByExactlyRecoveryRate ==
    [][(/\ ValidAnalyze(ret')
        /\ ~ret'.value.is_looking_away)
       => /\ detector'[1].suspicion_score =
                Max(0, detector[1].suspicion_score + RECOVERY_RATE)
          /\ detector'[1].suspicion_score <= detector[1].suspicion_score]_vars

\* C12 witness: one frame looking down, then eight attentive frames, the
\* first of them a fast head movement: the score went 1.5, 1.3, ... 0.1, 0
C12_RecoveredToZero ==
    LET h == detector[1].head_movement_history
    IN  /\ ValidAnalyze(ret)
        /\ ~ret.value.is_looking_away
        /\ Len(h) = 9
        /\ h[1] = <<R(0), R(50)>>
        /\ \A i \in 2..9 : h[i] = <<R(0), R(0)>>
        /\ detector[1].suspicion_score = 0

\* every frame analysed so far looked down by 0.5 with yaw 0
AllLookingDown ==
    \A i \in 1..Len(detector[1].head_movement_history) :
        detector[1].head_movement_history[i] = <<R(0), R(50)>>

\* the alert log holds the PROLONGED_DISTRACTION alert of frame n
ProlongedAlertAtFrame(n) ==
    LET alerts == detector[1].cheating_alerts
    IN  /\ Len(alerts) >= 1
        /\ alerts[1].reason = "PROLONGED_DISTRACTION"
        /\ alerts[1].timestamp = ClockStart + n

\* C13, as stated: consecutive frames one second apart looking down by 0.5
\* have fired PROLONGED_DISTRACTION, with CHEATING_DETECTED returned, no
\* later than the 6th frame.
C13_AlertBySixthFrame ==
    (AllLookingDown /\ Len(detector[1].head_movement_history) >= 6)
    => /\ \E n \in 1..6 : ProlongedAlertAtFrame(n)
       /\ Len(detector[1].head_movement_history) = 6
             => ret.value.alert_level \in {"CHEATING_DETECTED", "ONGOING_ALERT"}

\* C13, amended: the away duration at the k-th frame is k - 1 seconds, so
\* the 6th frame (5 s, not above the threshold) returns SUSPICIOUS_BEHAVIOR
\* with the log still empty, and the 7th frame (6 s) fires
\* PROLONGED_DISTRACTION and returns CHEATING_DETECTED.
C13_AlertAtSeventhFrame ==
    LET n == Len(detector[1].head_movement_history)
    IN  (AllLookingDown /\ ValidAnalyze(ret)) =>
           /\ ret.value.looking_away_duration = n - 1
           /\ n <= 6 => detector[1].cheating_alerts = <<>>
           /\ n \in {5, 6} => ret.value.alert_level = "SUSPICIOUS_BEHAVIOR"
           /\ n = 7 => ret.value.alert_level = "CHEATING_DETECTED"
           /\ n >= 7 => ProlongedAlertAtFrame(7)

\* C13 witness: the 7th frame looking down returned CHEATING_DETECTED
C13_SeventhFrameAlerted ==
    /\ AllLookingDown
    /\ Len(detector[1].head_movement_history) = 7
    /\ ret.value.alert_level = "CHEATING_DETECTED"
    /\ Len(detector[1].cheating_alerts) = 1

\* no frame analysed so far was looking away
NoFrameLookedAway ==
    \A i \in 1..Len(detector[1].head_movement_history) :
        ~is_looking_away(detector[1].head_movement_history[i][1],
                         detector[1].head_movement_history[i][2])

\* C14: as long as no frame is looking away, total_looking_away_time and
\* suspicion_score are 0 and the alert log is empty: no REPETITIVE_PATTERNS
\* alert is fired.
C14_AttentiveSessionStaysClean ==
    NoFrameLookedAway =>
        /\ detector[1].total_looking_away_time = 0
        /\ detector[1].suspicion_score = 0
        /\ detector[1].cheating_alerts = <<>>

\* C15: get_session_summary changes no detector state, and a summary taken
\* after the clock has advanced, with no other call in between, equals in
\* every field the summary taken before.
C15_SummaryRepeatable ==
    [][/\ ret'.op = "get_session_summary" =>
             /\ detector' = detector
             /\ ret'.value = get_session_summary(detector[ret'.inst], now)
       /\ ret'.op = "tick" =>
             get_session_summary(detector'[1], now') = get_session_summary(detector[1], now)]_vars

\* C16: looking_away_start is None exactly when no valid frame has been
\* seen or the most recent valid frame was not looking away; it is set, to
\* the current time, only by a valid away frame arriving while it is None,
\* and cleared only by a valid frame that is not looking away.
C16_AwayTimerTracksLastValidFrame ==
    /\ [](LET h == detector[1].head_movement_history
          IN  IsNone(detector[1].looking_away_start)
              <=> (h = <<>> \/ ~is_looking_away(h[Len(h)][1], h[Len(h)][2])))
    /\ [][detector'[1].looking_away_start # detector[1].looking_away_start
          => /\ ValidAnalyze(ret')
             /\ IF IsNone(detector[1].looking_away_start)
                THEN /\ ret'.value.is_looking_away
                     /\ detector'[1].looking_away_start = Some(now')
                ELSE /\ ~ret'.value.is_looking_away
                     /\ IsNone(detector'[1].looking_away_start)]_vars

\* C16 witness: the timer, started by an earlier away frame, is still
\* running, unchanged, at a later away frame
C16_TimerKeptAcrossFrames ==
    /\ ValidAnalyze(ret)
    /\ ret.value.is_looking_away
    /\ ~IsNone(detector[1].looking_away_start)
    /\ Get(detector[1].looking_away_start) < now
    /\ Len(detector[1].head_movement_history) >= 2

\* C17: analyze_gaze_behavior returns ONGOING_ALERT only inside the cooldown
\* window of an alert that was fired (the log is not empty and
\* now - last_alert_time < ALERT_COOLDOWN) and with alert_active true.
C17_OngoingOnlyInsideCooldown ==
    (AnalyzeReturned /\ ret.value.alert_level = "ONGOING_ALERT") =>
        /\ Len(detector[1].cheating_alerts) > 0
        /\ now - detector[1].last_alert_time < ALERT_COOLDOWN
        /\ now >= detector[1].last_alert_time
        /\ detector[1].alert_active

\* C17 witness: ONGOING_ALERT was returned
C17_OngoingReturned ==
    /\ AnalyzeReturned
    /\ ret.value.alert_level = "ONGOING_ALERT"
    /\ ret.value.total_alerts = 1

\* C18: the alert log is append-only: a step appends at most one record
\* and leaves the records already there as they are; an appended record
\* carries the reason and the score, away time and pattern counters as
\* they are after the call, which leaves last_alert_time at the current
\* time and alert_active true.
C18_AlertLogAppendOnly ==
    [][LET old == detector[1].cheating_alerts
           new == detector'[1].cheating_alerts
       IN  /\ Len(new) \in {Len(old), Len(old) + 1}
           /\ SubSeq(new, 1, Len(old)) = old
           /\ Len(new) = Len(old) + 1 =>
                 /\ ValidAnalyze(ret')
                 /\ ret'.value.alert_level = "CHEATING_DETECTED"
                 /\ detector'[1].last_alert_time = now'
                 /\ detector'[1].alert_active
                 /\ new[Len(new)].reason \in
                       {"HIGH_SUSPICION", "PROLONGED_DISTRACTION", "REPETITIVE_PATTERNS"}
                 /\ new[Len(new)].suspicion_score = detector'[1].suspicion_score
                 /\ new[Len(new)].total_away_time = detector'[1].total_looking_away_time
                 /\ new[Len(new)].patterns = detector'[1].repeated_patterns]_vars

\* C18 witness: reset_patterns ran after two alerts were logged; the
\* counters are now below the snapshot the last record keeps
C18_SnapshotKeptAfterReset ==
    LET alerts == detector[1].cheating_alerts
    IN  /\ ret.op = "reset_patterns"
        /\ Len(alerts) = 2
        /\ alerts[2].patterns.downward_looks > detector[1].repeated_patterns.downward_looks

\* the fields of a detector other than the pattern counters
ExceptPatterns(s) == [k \in DOMAIN s \ {"repeated_patterns"} |-> s[k]]

\* C19: reset_patterns replaces each pattern counter c by max(0, c - 1) and
\* changes nothing else; no other call decreases a counter; the counters
\* are never negative.
C19_CountersDecayOnlyByReset ==
    /\ [](\A k \in DOMAIN detector[1].repeated_patterns :
              detector[1].repeated_patterns[k] >= 0)
    /\ [][LET old == detector[1].repeated_patterns
               new == detector'[1].repeated_patterns
           IN  IF ret'.op = "reset_patterns"
               THEN /\ \A k \in DOMAIN old :
                          new[k] = IF old[k] >= 1 THEN old[k] - 1 ELSE 0
                    /\ ExceptPatterns(detector'[1]) = ExceptPatterns(detector[1])
               ELSE \A k \in DOMAIN old : new[k] >= old[k]]_vars

\* C19 witness: reset_patterns left one counter above 0 and one at 0
C19_ResetWithCounterAtZero ==
    /\ ret.op = "reset_patterns"
    /\ detector[1].repeated_patterns.downward_looks >= 1
    /\ detector[1].repeated_patterns.side_looks = 0
    /\ detector[1].suspicion_score > 0

\* the thresholds of the preset set_detection_mode(mode) selects, as
\* config.py lists them (seconds, counts, score in tenths)
PresetOf(mode) ==
    IF mode = "strict" THEN
        [SUSPICIOUS_GAZE_THRESHOLD |-> 2, CHEATING_GAZE_THRESHOLD |-> 3,
         MAX_DOWNWARD_LOOKS |-> 5, MAX_SIDE_LOOKS |-> 4, HIGH_SUSPICION_THRESHOLD |-> 500]
    ELSE IF mode = "lenient" THEN
        [SUSPICIOUS_GAZE_THRESHOLD |-> 5, CHEATING_GAZE_THRESHOLD |-> 8,
         MAX_DOWNWARD_LOOKS |-> 15, MAX_SIDE_LOOKS |-> 12, HIGH_SUSPICION_THRESHOLD |-> 800]
    ELSE
        [SUSPICIOUS_GAZE_THRESHOLD |-> 3, CHEATING_GAZE_THRESHOLD |-> 5,
         MAX_DOWNWARD_LOOKS |-> 10, MAX_SIDE_LOOKS |-> 8, HIGH_SUSPICION_THRESHOLD |-> 700]

\* C20: after set_detection_mode(m) the thresholds in effect are those of
\* preset m whatever was set before; setting the same mode again changes
\* nothing; moderate, and any name outside the three, gives the default
\* values.
C20_ModeSelectsPreset ==
    /\ [](ret.op = "set_detection_mode" =>
             /\ ThresholdsOf(ret.inst) = PresetOf(ret.mode)
             /\ set_detection_mode(config, ret.mode) = config
             /\ ret.mode \notin {"strict", "lenient"} => config = ClassAttrs)
    /\ [][ret'.op # "set_detection_mode" => config' = config]_vars

\* C20 witness: strict was set after lenient had been in force: the one
\* alert in the log was fired at the third frame looking down, the second,
\* 6 seconds away and doubled, not having reached the cheating threshold
C20_StrictAfterLenient ==
    /\ ret.op = "set_detection_mode"
    /\ ret.mode = "strict"
    /\ config.CHEATING_GAZE_THRESHOLD = 3
    /\ Len(detector[1].cheating_alerts) = 1
    /\ detector[1].cheating_alerts[1].patterns.downward_looks = 3
    /\ detector[1].cheating_alerts[1].suspicion_score = 75


(************************ further specifications ***************************)
\* the fallback face with a sixth landmark
SixLandmarkFace ==
    [Face(150, 200, 60, 5) EXCEPT !.landmarks = Append(@, [x |-> 75, y |-> 90])]

\* SpecPredict, the gazes predicted: the usual one; the second calibration
\* gaze, also on the usual face; raw angles far outside the clip bounds; a
\* face twice as near; faces with six and with four landmarks
PredictGazes ==
    {RawGaze(0, 0, Face(150, 200, 60, 5)),
     RawGaze(30, 60, Face(180, 230, 80, 5)),
     RawGaze(30, 60, Face(150, 200, 60, 5)),
     RawGaze(400, -300, Face(150, 200, 60, 5)),
     RawGaze(0, 0, Face(300, 350, 120, 5)),
     RawGaze(0, 0, SixLandmarkFace),
     RawGaze(0, 0, Face(150, 200, 60, 4))}

\* one GazeCalibrator calibrated on CalGazes and asked about PredictGazes
NextPredict ==
    \/ \E gaze \in CalGazes :
          /\ calibrator.frame_count < MaxFrames
          /\ UpdateBaseline(gaze)
    \/ \E gaze \in PredictGazes : AnalyzeFacialStructure(gaze)
    \/ \E gaze \in PredictGazes : CalibratedGazePrediction(gaze)

SpecPredict == Init /\ [][NextPredict]_vars

\* one CheatingDetector fed a frame every second, down or attentive, and
\* asked for its summary at any moment
NextSummary ==
    \/ \E cg \in ScenarioInputs : TimedFrame(1, MaxSummaryFrames, cg)
    \/ GetSessionSummary(1)

SpecSummary == Init /\ [][NextSummary]_vars

\* SpecPrecedence: far to the side while looking down, and attentive
PrecedenceInputs == {CG(80, 50, 90), CG(0, 0, 90)}

\* one CheatingDetector whose mode is chosen before the first frame and
\* which is then fed a frame every three seconds
NextPrecedence ==
    \/ \E mode \in {"strict", "moderate"} :
          /\ detector[1].head_movement_history = <<>>
          /\ SetDetectionMode(1, mode)
    \/ \E cg \in PrecedenceInputs : TimedFrame(3, MaxPrecedenceTime, cg)

SpecPrecedence == Init /\ [][NextPrecedence]_vars

\* SpecPatterns: down and far to the side; to the side by 0.6 (a side look
\* without the side penalty); the head turned by 0.45; down; attentive
PatternInputs ==
    {CG(80, 50, 90), CG(60, 0, 90), CG(45, 0, 90), CG(0, 50, 90), CG(0, 0, 90)}

\* one CheatingDetector fed a frame every four seconds
NextPatterns == \E cg \in PatternInputs : TimedFrame(4, MaxPatternsTime, cg)

SpecPatterns == Init /\ [][NextPatterns]_vars

\* SpecHistory, the gazes of frame n: the first two frames and the frames
\* from the 50th on are attentive or turned by 0.3, and from the 50th on a
\* frame may also be one the confidence guard rejects; the third frame is
\* turned by 0.2; the frames between alternate between the two poses. No
\* frame looks away or moves the head faster than HEAD_MOVEMENT_THRESHOLD.
HistoryFrames(n) ==
    IF n < 3 THEN {CG(0, 0, 90), CG(30, 0, 90)}
    ELSE IF n = 3 THEN {CG(20, 0, 90)}
    ELSE IF n < HISTORY_MAXLEN THEN {IF n % 2 = 0 THEN CG(0, 0, 90) ELSE CG(30, 0, 90)}
    ELSE {CG(0, 0, 90), CG(30, 0, 90), CG(0, 50, 29)}

\* one CheatingDetector fed a frame every second for longer than its
\* head-movement history holds
NextHistory ==
    \E cg \in HistoryFrames(now + 1 - ClockStart) : TimedFrame(1, MaxHistoryFrames, cg)

SpecHistory == Init /\ [][NextHistory]_vars

\* SpecRepetitive, the gazes of frame n: the first fourteen frames have the
\* head turned by 0.45 and do not look away; the later frames are such a
\* frame, attentive, looking down, or one the confidence guard rejects
RepetitiveFrames(n) ==
    IF n < MAX_HEAD_TURNS THEN {CG(45, 0, 90)}
    ELSE {CG(45, 0, 90), CG(0, 0, 90), CG(0, 50, 90), CG(0, 50, 29)}

\* one CheatingDetector fed a frame every five seconds, reset_patterns never
\* called, as run_detection drives it
NextRepetitive ==
    \E cg \in RepetitiveFrames((now + 5 - ClockStart) \div 5) :
        TimedFrame(5, MaxRepetitiveTime, cg)

SpecRepetitive == Init /\ [][NextRepetitive]_vars

\* SpecCounters: far to the left, far to the right by 0.6, the head turned
\* by 0.45, attentive
CounterInputs == {CG(-80, 0, 90), CG(60, 0, 90), CG(45, 0, 90), CG(0, 0, 90)}

\* one CheatingDetector under any interleaving of analyze_gaze_behavior,
\* reset_patterns and set_detection_mode
NextCounters ==
    \/ \E cg \in CounterInputs :
          /\ Len(detector[1].head_movement_history) < MaxCounterCalls
          /\ Analyze(1, cg, SomeStructure)
    \/ ResetPatterns(1)
    \/ \E mode \in {"strict", "lenient"} : SetDetectionMode(1, mode)

SpecCounters == Init /\ [][NextCounters]_vars

\* SpecTimestamps: looking down, attentive, and a frame the confidence guard
\* rejects
TimestampInputs == {CG(0, 50, 90), CG(0, 0, 90), CG(0, 50, 29)}

\* frame_timestamp values: run_detection passes frame_count / fps, video
\* time that starts at 0; another caller may pass epoch seconds
FrameTimestamps == {0, 7, ClockStart + 1000}

\* two CheatingDetector instances are given the same gaze at the same
\* wall-clock time, each with a frame_timestamp of its own
PairedFrame(cg, ts1, ts2) ==
    /\ now + 4 <= ClockStart + MaxTimestampsTime
    /\ now' = now + 4
    /\ LET r1 == analyze_gaze_behavior(ConfigOf(1), detector[1],
                                       current_time(now', ts1), cg, SomeStructure)
           r2 == analyze_gaze_behavior(ConfigOf(2), detector[2],
                                       current_time(now', ts2), cg, SomeStructure)
       IN  /\ detector' = [detector EXCEPT ![1] = r1.state, ![2] = r2.state]
           /\ ret' = [op |-> "analyze_gaze_behavior", inst |-> 1,
                      calibrated_gaze |-> cg, facial_structure |-> SomeStructure,
                      frame_timestamp |-> <<ts1, ts2>>,
                      value |-> r1.result, value2 |-> r2.result]
    /\ UNCHANGED <<config, calibrator, worker>>

NextTimestamps ==
    \E cg \in TimestampInputs, ts1, ts2 \in FrameTimestamps : PairedFrame(cg, ts1, ts2)

SpecTimestamps == Init /\ [][NextTimestamps]_vars

\* one CheatingDetector whose calls arrive at any moment of an advancing
\* clock: looking down, attentive, or rejected by the confidence guard
NextElapsed ==
    \/ Tick(2, MaxElapsedTime)
    \/ \E cg \in TimestampInputs :
          /\ Len(detector[1].head_movement_history) < MaxElapsedCalls
          /\ Analyze(1, cg, SomeStructure)
    \/ GetSessionSummary(1)

SpecElapsed == Init /\ [][NextElapsed]_vars

\* SpecSkipped: looking down, low confidence, no gaze at all, attentive
SkippedInputs == {CG(0, 50, 90), CG(0, 50, 29), None, CG(0, 0, 90)}

\* one CheatingDetector fed a frame every two seconds, some of them frames
\* that the guards skip
NextSkipped == \E cg \in SkippedInputs : TimedFrame(2, MaxSkippedTime, cg)

SpecSkipped == Init /\ [][NextSkipped]_vars

(***************************** further claims ******************************)
\* calibrated_gaze_prediction returned a CalibratedGaze record
PredictionReturned == ret.op = "calibrated_gaze_prediction" /\ ret.value # None

\* C21: every prediction of a calibrated GazeCalibrator has calibrated_yaw
\* in [-pi/2, pi/2] and calibrated_pitch in [-pi/3, pi/3].
C21_PredictionWithinClipBounds ==
    PredictionReturned =>
        /\ RLe(RDiv(PI, R(-2)), Get(ret.value).calibrated_yaw)
        /\ RLe(Get(ret.value).calibrated_yaw, RDiv(PI, R(2)))
        /\ RLe(RDiv(PI, R(-3)), Get(ret.value).calibrated_pitch)
        /\ RLe(Get(ret.value).calibrated_pitch, RDiv(PI, R(3)))

\* C21 witness: raw angles of 4.0 and -3.0 came back as pi/2 and -pi/3
C21_ClippedAtBothBounds ==
    /\ PredictionReturned
    /\ ret.gaze.yaw = 400
    /\ Get(ret.value).calibrated_yaw = RDiv(PI, R(2))
    /\ Get(ret.value).calibrated_pitch = RDiv(PI, R(-3))

\* C22: a prediction whose raw yaw and pitch equal the head-pose baseline
\* means has calibrated_yaw = 0 and calibrated_pitch = 0, whatever the
\* face dimensions of the frame.
C22_BaselinePoseMapsToZero ==
    (/\ PredictionReturned
     /\ R(ret.gaze.yaw) = Get(calibrator.head_pose_baseline).yaw
     /\ R(ret.gaze.pitch) = Get(calibrator.head_pose_baseline).pitch)
    => /\ Get(ret.value).calibrated_yaw = R(0)
       /\ Get(ret.value).calibrated_pitch = R(0)

\* C22 witness: the baseline pose is (0.3, 0.6), the face baseline 180 by
\* 230, and the frame, at that pose on a 150 by 200 face, came back as 0, 0
C22_NonZeroBaselinePoseAtZero ==
    /\ PredictionReturned
    /\ Get(calibrator.head_pose_baseline).yaw = R(30)
    /\ Get(calibrator.head_pose_baseline).pitch = R(60)
    /\ ret.gaze = RawGaze(30, 60, Face(150, 200, 60, 5))
    /\ Get(ret.value).calibrated_yaw = R(0)

\* |dWidth| + |dHeight| of the frame just predicted against the baseline
SizeDeviation ==
    RAdd(RAbs(RSub(R(Get(ret.facial_structure).face_dimensions[1]),
                   Get(calibrator.face_baseline).width)),
         RAbs(RSub(R(Get(ret.facial_structure).face_dimensions[2]),
                   Get(calibrator.face_baseline).height)))

\* |dEyeDistance| of the frame just predicted against the baseline
EyeDeviation ==
    RAbs(RSub(R(Get(ret.facial_structure).eye_distance),
              Get(calibrator.eye_baseline).distance))

\* C23: the confidence of every CalibratedGaze lies in [0, 1]; it is the
\* mean of 1 - min(1, (|dWidth| + |dHeight|)/200) and
\* 1 - min(1, |dEyeDistance|/50); it is 1 when the frame's measurements
\* equal the baseline means and 0 when both deviations reach their
\* tolerances.
C23_ConfidenceWithinUnitInterval ==
    PredictionReturned =>
        LET confidence == Get(ret.value).confidence
            size_consistency == RSub(R(1), RMin(R(1), RDiv(SizeDeviation, R(200))))
            eye_consistency == RSub(R(1), RMin(R(1), RDiv(EyeDeviation, R(50))))
        IN  /\ RLe(R(0), confidence)
            /\ RLe(confidence, R(1))
            /\ confidence = RDiv(RAdd(size_consistency, eye_consistency), R(2))
            /\ (SizeDeviation = R(0) /\ EyeDeviation = R(0)) => confidence = R(1)
            /\ (RLe(R(200), SizeDeviation) /\ RLe(R(50), EyeDeviation)) => confidence = R(0)

\* C23 witness: a face 150 wider and higher than the baseline, the eyes 60
\* further apart, was given confidence 0
C23_ConfidenceZeroBeyondTolerances ==
    /\ PredictionReturned
    /\ RLt(R(200), SizeDeviation)
    /\ RLt(R(50), EyeDeviation)
    /\ Get(ret.value).confidence = R(0)

\* C24: analyze_facial_structure returns None exactly when the face has
\* fewer than 5 landmarks; otherwise it returns a structure built from
\* landmarks 0, 1 and 2, also when one of them is at (0, 0); it changes no
\* calibrator state.
C24_StructureAbsentIffFewLandmarks ==
    /\ [](ret.op = "analyze_facial_structure" =>
             /\ ret.value = None <=> Len(ret.face.landmarks) < 5
             /\ ret.value # None =>
                   LET fs == Get(ret.value)
                       dx == ret.face.landmarks[2].x - ret.face.landmarks[1].x
                       dy == ret.face.landmarks[2].y - ret.face.landmarks[1].y
                   IN  /\ fs.left_eye = ret.face.landmarks[1]
                       /\ fs.right_eye = ret.face.landmarks[2]
                       /\ fs.nose_tip = ret.face.landmarks[3]
                       /\ fs.face_dimensions = <<ret.face.width, ret.face.height>>
                       /\ fs.eye_distance * fs.eye_distance = dx * dx + dy * dy)
    /\ [][ret'.op = "analyze_facial_structure" => calibrator' = calibrator]_vars

\* C24 witness: a face with six landmarks, the first at (0, 0), was given a
\* structure by a calibrator that is collecting samples
C24_SixLandmarksWithOrigin ==
    /\ ret.op = "analyze_facial_structure"
    /\ Len(ret.face.landmarks) = 6
    /\ ret.face.landmarks[1] = [x |-> 0, y |-> 0]
    /\ ret.value # None
    /\ calibrator.frame_count > 0

\* the three pattern counters
PatternTypes == {"downward_looks", "side_looks", "head_turns"}

\* C25: in the behavior_analysis of a summary a pattern counter has an entry
\* exactly when its count is > 0; the entry carries the count, and its
\* severity is HIGH above 10, MEDIUM from 6 to 10 and LOW from 1 to 5.
C25_SeverityBuckets ==
    ret.op = "get_session_summary" =>
        LET analysis == ret.value.behavior_analysis
            count == detector[1].repeated_patterns
        IN  /\ DOMAIN analysis \subseteq PatternTypes
            /\ \A k \in PatternTypes :
                  /\ k \in DOMAIN analysis <=> count[k] > 0
                  /\ count[k] > 10 => analysis[k] = [count |-> count[k], severity |-> "HIGH"]
                  /\ count[k] \in 6..10 => analysis[k] = [count |-> count[k], severity |-> "MEDIUM"]
                  /\ count[k] \in 1..5 => analysis[k] = [count |-> count[k], severity |-> "LOW"]

\* C25 witness: a summary taken after eleven downward frames reports
\* downward_looks as HIGH and has no entry for the two counters at 0
C25_HighAfterElevenDownwardFrames ==
    /\ ret.op = "get_session_summary"
    /\ detector[1].repeated_patterns.downward_looks = 11
    /\ DOMAIN ret.value.behavior_analysis = {"downward_looks"}
    /\ ret.value.behavior_analysis["downward_looks"].severity = "HIGH"

\* the step fired an alert with this reason and returned CHEATING_DETECTED
FiredAlert(reason) ==
    /\ Len(detector'[1].cheating_alerts) = Len(detector[1].cheating_alerts) + 1
    /\ detector'[1].cheating_alerts[Len(detector'[1].cheating_alerts)].reason = reason
    /\ detector'[1].alert_active
    /\ ret'.value.alert_level = "CHEATING_DETECTED"

\* the step fired nothing
FiredNothing ==
    /\ detector'[1].cheating_alerts = detector[1].cheating_alerts
    /\ detector'[1].last_alert_time = detector[1].last_alert_time

\* a pattern counter, as the call left it, is above its cap
CounterAboveCap ==
    \/ detector'[1].repeated_patterns.downward_looks > config.MAX_DOWNWARD_LOOKS
    \/ detector'[1].repeated_patterns.side_looks > config.MAX_SIDE_LOOKS
    \/ detector'[1].repeated_patterns.head_turns > MAX_HEAD_TURNS

\* C26: on every valid analyze call the alert level and the alert fired
\* follow the precedence, first match wins: (i) inside the cooldown
\* ONGOING_ALERT if alert_active else NO_ALERT, nothing fired; (ii) score
\* above HIGH_SUSPICION_THRESHOLD: HIGH_SUSPICION fired; (iii) duration above
\* CHEATING_GAZE_THRESHOLD: PROLONGED_DISTRACTION fired; (iv) duration above
\* SUSPICIOUS_GAZE_THRESHOLD: SUSPICIOUS_BEHAVIOR, nothing fired,
\* alert_active unchanged; (v) a counter above its cap: REPETITIVE_PATTERNS
\* fired; (vi) otherwise alert_active cleared and NO_ALERT.
C26_AlertPrecedence ==
    [][(ValidAnalyze(ret') /\ ret'.inst = 1) =>
          LET level == ret'.value.alert_level
              score == ret'.value.suspicion_score
              duration == ret'.value.looking_away_duration
          IN  IF now' - detector[1].last_alert_time < ALERT_COOLDOWN
              THEN /\ level = IF detector[1].alert_active
                              THEN "ONGOING_ALERT" ELSE "NO_ALERT"
                   /\ FiredNothing
                   /\ detector'[1].alert_active = detector[1].alert_active
              ELSE IF score > config.HIGH_SUSPICION_THRESHOLD
              THEN FiredAlert("HIGH_SUSPICION")
              ELSE IF duration > config.CHEATING_GAZE_THRESHOLD
              THEN FiredAlert("PROLONGED_DISTRACTION")
              ELSE IF duration > config.SUSPICIOUS_GAZE_THRESHOLD
              THEN /\ level = "SUSPICIOUS_BEHAVIOR"
                   /\ FiredNothing
                   /\ detector'[1].alert_active = detector[1].alert_active
              ELSE IF CounterAboveCap
              THEN FiredAlert("REPETITIVE_PATTERNS")
              ELSE /\ level = "NO_ALERT"
                   /\ FiredNothing
                   /\ ~detector'[1].alert_active]_vars

\* C26 witness: SUSPICIOUS_BEHAVIOR was returned, and no alert logged, on a
\* frame that left side_looks above MAX_SIDE_LOOKS
C26_SuspiciousDespiteCounterAboveCap ==
    /\ ValidAnalyze(ret)
    /\ ret.value.alert_level = "SUSPICIOUS_BEHAVIOR"
    /\ detector[1].repeated_patterns.side_looks > config.MAX_SIDE_LOOKS
    /\ detector[1].cheating_alerts = <<>>

\* 1 if the condition holds, else 0
Indicator(b) == IF b THEN 1 ELSE 0

\* C27: on a valid call with the subject looking away the suspicion delta is
\* LOOKING_AWAY_PENALTY + [pitch > DOWNWARD_GAZE_ANGLE] * DOWNWARD_LOOK_PENALTY
\* + [|yaw| > 1.5 * SIDE_GAZE_ANGLE] * SIDE_LOOK_PENALTY
\* + [velocity > HEAD_MOVEMENT_THRESHOLD] * HEAD_MOVEMENT_PENALTY, the whole
\* sum multiplied by DURATION_MULTIPLIER exactly when looking_away_duration
\* > SUSPICIOUS_GAZE_THRESHOLD.
C27_AwayDeltaFormula ==
    [][(ValidAnalyze(ret') /\ ret'.inst = 1 /\ ret'.value.is_looking_away) =>
          LET v == ret'.value
              sum == LOOKING_AWAY_PENALTY
                     + Indicator(RGt(v.pitch, R(DOWNWARD_GAZE_ANGLE))) * DOWNWARD_LOOK_PENALTY
                     + Indicator(RGt(RMul(RAbs(v.yaw), R(2)), R(3 * SIDE_GAZE_ANGLE)))
                           * SIDE_LOOK_PENALTY
                     + Indicator(RGt(v.head_movement_velocity_sq,
                                     R(HEAD_MOVEMENT_THRESHOLD * HEAD_MOVEMENT_THRESHOLD)))
                           * HEAD_MOVEMENT_PENALTY
              delta == IF v.looking_away_duration > config.SUSPICIOUS_GAZE_THRESHOLD
                       THEN sum * DURATION_MULTIPLIER ELSE sum
          IN  detector'[1].suspicion_score =
                  Min(MAX_SUSPICION_SCORE, detector[1].suspicion_score + delta)]_vars

\* C27 witness: a frame down and far to the side, four seconds into an away
\* interval and after a fast head movement, raised the score from 0.5 by
\* (0.5 + 1.0 + 1.5 + 2.0) * 2 to 10.5
C27_AllTermsDoubled ==
    /\ ValidAnalyze(ret)
    /\ ret.value.yaw = R(80)
    /\ ret.value.pitch = R(50)
    /\ ret.value.looking_away_duration = 4
    /\ MovedFast(ret)
    /\ Len(detector[1].head_movement_history) = 2
    /\ ret.value.suspicion_score = 105

\* C28: every valid call, inside a cooldown or not, firing an alert or not,
\* increments downward_looks by 1 iff pitch > DOWNWARD_GAZE_ANGLE, side_looks
\* by 1 iff |yaw| > SIDE_GAZE_ANGLE and head_turns by 1 iff
\* |yaw| > HEAD_MOVEMENT_THRESHOLD, each test on its own.
C28_CountersCountFrames ==
    [][(ValidAnalyze(ret') /\ ret'.inst = 1) =>
          LET old == detector[1].repeated_patterns
              new == detector'[1].repeated_patterns
              yaw == ret'.value.yaw
              pitch == ret'.value.pitch
          IN  /\ new.downward_looks =
                    old.downward_looks + Indicator(RGt(pitch, R(DOWNWARD_GAZE_ANGLE)))
              /\ new.side_looks =
                    old.side_looks + Indicator(RGt(RAbs(yaw), R(SIDE_GAZE_ANGLE)))
              /\ new.head_turns =
                    old.head_turns + Indicator(RGt(RAbs(yaw), R(HEAD_MOVEMENT_THRESHOLD)))]_vars

\* C28 witness: the fourth frame of one away interval, inside the cooldown
\* of the alert the third frame fired, left all three counters at 4
C28_CountedInsideCooldown ==
    /\ ValidAnalyze(ret)
    /\ ret.value.alert_level = "ONGOING_ALERT"
    /\ ret.value.looking_away_duration = 12
    /\ Len(detector[1].head_movement_history) = 4
    /\ detector[1].repeated_patterns =
           [downward_looks |-> 4, side_looks |-> 4, head_turns |-> 4]

\* the pose is one _is_looking_away answers True for
AwayPose(pose) ==
    \/ RGt(pose[2], R(DOWNWARD_GAZE_ANGLE))
    \/ RGt(RAbs(pose[1]), R(SIDE_GAZE_ANGLE))

\* with a valid frame every second, h the poses so far: the seconds spent in
\* away intervals that a later frame has closed
CompletedAwayTime(h) ==
    Cardinality({i \in 1..Len(h) :
                    /\ AwayPose(h[i])
                    /\ \E j \in (i + 1)..Len(h) : ~AwayPose(h[j])})

\* C29: total_looking_away_time changes only on a valid frame that is not
\* looking away and arrives while looking_away_start is set, and then grows
\* by now - looking_away_start; it is the total length of the completed away
\* intervals, without the interval in progress, also as recorded in the
\* alerts fired and in a summary.
C29_AwayTimeCountsCompletedIntervals ==
    /\ [](LET s == detector[1]
              h == s.head_movement_history
          IN  /\ s.total_looking_away_time = CompletedAwayTime(h)
              /\ \A i \in 1..Len(s.cheating_alerts) :
                    s.cheating_alerts[i].total_away_time =
                        CompletedAwayTime(SubSeq(h, 1, s.cheating_alerts[i].timestamp - ClockStart))
              /\ ret.op = "get_session_summary" =>
                    ret.value.total_looking_away_time = CompletedAwayTime(h))
    /\ [][LET old == detector[1]
              new == detector'[1]
              closing == /\ ValidAnalyze(ret')
                         /\ ~ret'.value.is_looking_away
                         /\ old.looking_away_start # None
          IN  IF closing
              THEN new.total_looking_away_time =
                       old.total_looking_away_time + (now' - Get(old.looking_away_start))
              ELSE new.total_looking_away_time = old.total_looking_away_time]_vars

\* C29 witness: a summary taken six seconds into an away interval, after an
\* interval of two seconds was completed, reports 2, and so does the alert
\* the interval in progress has fired
C29_SummaryDuringAwayInterval ==
    /\ ret.op = "get_session_summary"
    /\ detector[1].looking_away_start # None
    /\ now - Get(detector[1].looking_away_start) = 6
    /\ ret.value.total_looking_away_time = 2
    /\ Len(detector[1].cheating_alerts) = 1
    /\ detector[1].cheating_alerts[1].total_away_time = 2

\* C30: the head-movement history holds the (yaw, pitch) of the most recent
\* valid frames in arrival order and never more than 50 of them, the oldest
\* leaving first; the velocity a valid call reports is 0 for the first
\* valid frame and otherwise the Euclidean distance to the pose of the valid
\* frame just before, also once the history is full.
C30_HistoryBoundedOldestFirst ==
    /\ [](Len(detector[1].head_movement_history) <= HISTORY_MAXLEN)
    /\ [][LET old == detector[1].head_movement_history
              new == detector'[1].head_movement_history
          IN  IF ValidAnalyze(ret')
              THEN LET yaw == ret'.value.yaw
                       pitch == ret'.value.pitch
                       kept == IF Len(old) = HISTORY_MAXLEN THEN Tail(old) ELSE old
                       dy == RSub(yaw, old[Len(old)][1])
                       dp == RSub(pitch, old[Len(old)][2])
                   IN  /\ new = Append(kept, <<yaw, pitch>>)
                       /\ ret'.value.head_movement_velocity_sq =
                              IF old = <<>> THEN R(0)
                              ELSE RAdd(RMul(dy, dy), RMul(dp, dp))
              ELSE new = old]_vars

\* C30 witness: after 52 valid frames the history holds 50 poses, the
\* third frame's at the front, and the last call reported the distance 0.3
\* between the last two
C30_FullHistoryAfterTwoEvictions ==
    LET h == detector[1].head_movement_history
    IN  /\ ValidAnalyze(ret)
        /\ Len(h) = HISTORY_MAXLEN
        /\ h[1] = <<R(20), R(0)>>
        /\ h[HISTORY_MAXLEN - 1] = <<R(0), R(0)>>
        /\ h[HISTORY_MAXLEN] = <<R(30), R(0)>>
        /\ ret.value.head_movement_velocity_sq = R(900)

\* C31: after an alert fired at T every valid call at a time t with
\* T < t < T + ALERT_COOLDOWN returns ONGOING_ALERT, and alert_active is not
\* cleared before T + ALERT_COOLDOWN, also when the subject is back at the
\* screen and the score is 0.
C31_OngoingThroughoutCooldown ==
    /\ []((/\ ValidAnalyze(ret)
           /\ ret.inst = 1
           /\ detector[1].cheating_alerts # <<>>
           /\ detector[1].last_alert_time < now
           /\ now < detector[1].last_alert_time + ALERT_COOLDOWN)
          => /\ ret.value.alert_level = "ONGOING_ALERT"
             /\ detector[1].alert_active)
    /\ [][(detector[1].alert_active /\ ~detector'[1].alert_active)
             => now' >= detector[1].last_alert_time + ALERT_COOLDOWN]_vars

\* C31 witness: five seconds after an alert an attentive frame with the
\* score at 0 was answered with ONGOING_ALERT
C31_OngoingWhileAttentiveAtZero ==
    /\ ValidAnalyze(ret)
    /\ detector[1].cheating_alerts # <<>>
    /\ now = detector[1].last_alert_time + 5
    /\ ret.value.yaw = R(0)
    /\ ~ret.value.is_looking_away
    /\ ret.value.suspicion_score = 0
    /\ ret.value.alert_level = "ONGOING_ALERT"

\* C32: with a pattern counter above its cap and reset_patterns not called,
\* no valid call returns NO_ALERT: inside the cooldown it returns
\* ONGOING_ALERT, outside CHEATING_DETECTED or SUSPICIOUS_BEHAVIOR, and
\* outside the cooldown a call that is not SUSPICIOUS_BEHAVIOR fires an
\* alert, also for an attentive subject with the score at 0.
C32_NoAlertNeverReturnedAboveCap ==
    [][(ValidAnalyze(ret') /\ ret'.inst = 1 /\ CounterAboveCap) =>
          LET level == ret'.value.alert_level
          IN  IF now' - detector[1].last_alert_time < ALERT_COOLDOWN
              THEN level = "ONGOING_ALERT" /\ FiredNothing
              ELSE /\ level \in {"CHEATING_DETECTED", "SUSPICIOUS_BEHAVIOR"}
                   /\ level = "CHEATING_DETECTED" <=>
                         Len(detector'[1].cheating_alerts) = Len(detector[1].cheating_alerts) + 1
                   /\ level = "SUSPICIOUS_BEHAVIOR" <=>
                         /\ ret'.value.looking_away_duration > config.SUSPICIOUS_GAZE_THRESHOLD
                         /\ ret'.value.looking_away_duration <= config.CHEATING_GAZE_THRESHOLD
                         /\ ret'.value.suspicion_score <= config.HIGH_SUSPICION_THRESHOLD]_vars

\* C32 witness: a second REPETITIVE_PATTERNS alert, one cooldown after the
\* first, was fired on an attentive frame with the score at 0
C32_SecondAlertWhileAttentive ==
    LET alerts == detector[1].cheating_alerts
    IN  /\ ValidAnalyze(ret)
        /\ ret.value.yaw = R(0)
        /\ ~ret.value.is_looking_away
        /\ ret.value.suspicion_score = 0
        /\ ret.value.alert_level = "CHEATING_DETECTED"
        /\ Len(alerts) = 2
        /\ alerts[1].reason = "REPETITIVE_PATTERNS"
        /\ alerts[2].reason = "REPETITIVE_PATTERNS"
        /\ alerts[2].timestamp = alerts[1].timestamp + ALERT_COOLDOWN
        /\ alerts[2].timestamp = now

\* C33: with HEAD_MOVEMENT_THRESHOLD below SIDE_GAZE_ANGLE, head_turns >=
\* side_looks in every reachable state of a detector, under any interleaving
\* of analyze_gaze_behavior, reset_patterns and mode switches.
C33_HeadTurnsAtLeastSideLooks ==
    /\ HEAD_MOVEMENT_THRESHOLD < SIDE_GAZE_ANGLE
    /\ \A d \in Detectors :
          detector[d].repeated_patterns.head_turns >= detector[d].repeated_patterns.side_looks

\* C33 witness: after side looks, a head turn that is no side look and a
\* mode switch, reset_patterns left side_looks at 1 and head_turns at 2
C33_ResetKeepsOrder ==
    /\ ret.op = "reset_patterns"
    /\ config = StrictAttrs
    /\ detector[1].repeated_patterns.side_looks = 1
    /\ detector[1].repeated_patterns.head_turns = 2

\* C34: frame_timestamp has no influence: two detectors given the same
\* gazes at the same wall-clock times with different frame_timestamp values
\* are in the same state and return the same results; the result's
\* timestamp and the away duration come from the wall clock.
C34_FrameTimestampIgnored ==
    /\ detector[1] = detector[2]
    /\ AnalyzeReturned =>
          /\ ret.value = ret.value2
          /\ ret.value.timestamp = now
          /\ (ValidAnalyze(ret) /\ ret.value.is_looking_away) =>
                ret.value.looking_away_duration = now - Get(detector[1].looking_away_start)

\* C34 witness: the two detectors fired the same alert on the same frame,
\* one given frame_timestamp 0 and the other an epoch time
C34_SameAlertForBothTimestamps ==
    /\ AnalyzeReturned
    /\ ret.frame_timestamp = <<0, ClockStart + 1000>>
    /\ ret.value.alert_level = "CHEATING_DETECTED"
    /\ Len(detector[2].cheating_alerts) = 1
    /\ detector[2].cheating_alerts[1].timestamp = now

\* C35: with time advancing, total_looking_away_time never decreases and
\* never exceeds now - session_start_time, and the away_time_percentage of
\* a summary lies in [0, 100].
C35_AwayTimeWithinElapsedTime ==
    /\ [](LET s == detector[1]
          IN  /\ 0 <= s.total_looking_away_time
              /\ s.total_looking_away_time <= now - s.session_start_time
              /\ ret.op = "get_session_summary" =>
                    /\ RLe(R(0), ret.value.away_time_percentage)
                    /\ RLe(ret.value.away_time_percentage, R(100))
                    /\ RMul(ret.value.away_time_percentage, R(ret.value.session_duration))
                           = R(100 * s.total_looking_away_time))
    /\ [][/\ now' >= now
          /\ detector'[1].total_looking_away_time >= detector[1].total_looking_away_time]_vars

\* C35 witness: the subject looked away from the first moment until the
\* frame just before the summary, which reports 100 percent
C35_AwayAllSession ==
    /\ ret.op = "get_session_summary"
    /\ ret.value.session_duration = 4
    /\ ret.value.total_looking_away_time = 4
    /\ ret.value.away_time_percentage = R(100)

\* C36: skipped frames do not pause the away timer: an absent or
\* low-confidence frame leaves looking_away_start as it is, and a valid
\* looking-away frame that finds the timer set keeps it and reports
\* now - looking_away_start, the time of the skipped frames included.
C36_TimerRunsThroughSkippedFrames ==
    [][(ret'.op = "analyze_gaze_behavior" /\ ret'.inst = 1) =>
          LET old == detector[1].looking_away_start
              new == detector'[1].looking_away_start
          IN  IF RejectedInput(ret'.calibrated_gaze, ret'.facial_structure)
              THEN new = old
              ELSE (ret'.value.is_looking_away /\ old # None) =>
                      /\ new = old
                      /\ ret'.value.looking_away_duration = now' - Get(old)]_vars

\* C36 witness: the second valid frame, six seconds after the first with
\* only skipped frames between, had its penalty doubled and fired
\* PROLONGED_DISTRACTION
C36_ProlongedThroughSkippedFrames ==
    /\ ValidAnalyze(ret)
    /\ Len(detector[1].head_movement_history) = 2
    /\ ret.value.looking_away_duration = 6
    /\ now - ClockStart = 8
    /\ ret.value.suspicion_score = 45
    /\ Len(detector[1].cheating_alerts) = 1
    /\ detector[1].cheating_alerts[1].reason = "PROLONGED_DISTRACTION"

=============================================================================
